---- MODULE Spec2Model ----
(***************************************************************************)
(* Flashcard synthesis pipeline of the adaptive learning system:           *)
(* keyword extraction, sentence selection, the three question generators,  *)
(* deck assembly, and the JSON export/import boundary.                     *)
(*                                                                         *)
(* Strings are sequences of one-character strings.  A text or a sentence   *)
(* is the sequence of its whitespace-delimited words; the Python string is *)
(* Join(words), words separated by one blank.  In the texts of this model  *)
(* punctuation ("." and ",") occurs only at the end of a word and "." only *)
(* at the end of a sentence.                                               *)
(***************************************************************************)
EXTENDS Integers, Sequences, FiniteSets, TLC

VARIABLES
    punkt_ok,       \* NLTK tokenizer resource loads (word_tokenize/sent_tokenize succeed)
    stopwords_ok,   \* NLTK stopword corpus loads
    pc,             \* position of the operation in progress
    text,           \* input text (sequence of words)
    num_keywords,   \* argument of extract_keywords
    kw_out,         \* outcome of extract_keywords: [raised, val]
    sentence,       \* sentence argument of the question generators
    keywords,       \* keyword list (argument of the generators / local of generate_flashcards)
    card_out,       \* value returned by a question generator
    num_mcq,        \* quotas of generate_flashcards
    num_tf,
    num_fill,
    key_sentences,  \* local of generate_flashcards
    all_cards,      \* local of generate_flashcards
    idx,            \* position of the running for loop in key_sentences
    tf_count,       \* local of generate_flashcards
    attempted,      \* sentences each loop has passed to its generator
    deck,           \* outcome of generate_flashcards: [raised, val]
    rng_mode,       \* "free": draws unconstrained; "record": draws logged; "replay": draws read from the log
    tape,           \* the logged random draws, one entry per generator call or shuffle
    pos,            \* next entry of the log
    first_run,      \* environment and deck of the recorded run
    flashcards,     \* st.session_state.flashcards on the Import & Export tab (list of dicts)
    download,       \* data of the download button: the exported JSON text, or none
    imported_flashcards, \* outcome of import_flashcards_json: [raised, val]
    uploaded_json,  \* text of the JSON file given to the import uploader, or None
    num_sentences,  \* argument of extract_key_sentences
    sel_out,        \* outcome of extract_key_sentences: [raised, val]
    uploaded_file,  \* the uploaded file: [kind, ...] with its content
    doc_out,        \* value returned by a DocumentProcessor method: text or None
    tmp_files,      \* the temporary files that exist on disk
    st_errors,      \* number of st.error messages shown
    app_mode,       \* module chosen in the sidebar of main_app
    tb_file,        \* file in the uploader of the textbook module, or None
    story_file,     \* file in the uploader of the Interactive EDU module, or None
    session_state,  \* st.session_state: the fields the three modules share
    cache_data,     \* st.cache_data: the argument tuples each function was run for
    ran,            \* the functions whose body ran in the last script run
    displayed,      \* the results the textbook module displayed in the last run, or None
    text_content,   \* text taken by the flashcard module ("Use Extracted Text")
    app,            \* the Streamlit script of the session: flashcard_generator or main_app
    current_card,   \* st.session_state.current_card
    selected_option, \* st.session_state.selected_option: None or the option chosen
    user_answer,    \* st.session_state.user_answer
    show_answer,    \* st.session_state.show_answer
    score,          \* st.session_state.score
    total_answered, \* st.session_state.total_answered
    quiz_completed, \* st.session_state.quiz_completed
    show_stats      \* st.session_state.show_stats

envVars == <<punkt_ok, stopwords_ok>>
kwVars  == <<text, num_keywords, kw_out>>
synthVars == <<sentence, keywords, card_out>>
quotaVars == <<num_mcq, num_tf, num_fill>>
genVars == <<num_mcq, num_tf, num_fill, key_sentences, all_cards, idx, tf_count,
             attempted, deck>>
rngVars == <<rng_mode, tape, pos, first_run>>
ioVars  == <<flashcards, download, imported_flashcards, uploaded_json>>
selVars == <<num_sentences, sel_out>>
docVars == <<uploaded_file, doc_out, tmp_files, st_errors>>
quizVars == <<app, current_card, selected_option, user_answer, show_answer, score,
              total_answered, quiz_completed, show_stats>>
tbVars  == <<app_mode, tb_file, story_file, session_state, cache_data, ran, displayed,
             text_content>>
vars    == <<punkt_ok, stopwords_ok, pc, text, num_keywords, kw_out,
             sentence, keywords, card_out,
             num_mcq, num_tf, num_fill, key_sentences, all_cards, idx, tf_count,
             attempted, deck, rng_mode, tape, pos, first_run,
             flashcards, download, imported_flashcards, uploaded_json,
             num_sentences, sel_out, uploaded_file, doc_out, tmp_files, st_errors,
             app_mode, tb_file, story_file, session_state, cache_data, ran, displayed,
             text_content,
             app, current_card, selected_option, user_answer, show_answer, score,
             total_answered, quiz_completed, show_stats>>

(***************************************************************************)
(* Characters and strings                                                  *)
(***************************************************************************)
UpperLetters == <<"A","B","C","D","E","F","G","H","I","J","K","L","M",
                  "N","O","P","Q","R","S","T","U","V","W","X","Y","Z">>
LowerLetters == <<"a","b","c","d","e","f","g","h","i","j","k","l","m",
                  "n","o","p","q","r","s","t","u","v","w","x","y","z">>
Digits == {"0","1","2","3","4","5","6","7","8","9"}
Punctuation == {".", ",", "'", ":", "!", "?"}

Range(s) == {s[k] : k \in 1..Len(s)}

Min(a, b) == IF a <= b THEN a ELSE b

Alphabet == Range(UpperLetters) \cup Range(LowerLetters) \cup Digits
               \cup Punctuation \cup {"_", " "}

\* str.lower() on one character
LowerMap == [c \in Alphabet |->
               IF \E k \in 1..26 : UpperLetters[k] = c
               THEN LowerLetters[CHOOSE k \in 1..26 : UpperLetters[k] = c]
               ELSE c]

\* str.lower()
Lower(s) == [k \in 1..Len(s) |-> LowerMap[s[k]]]

IsAlnumChar(c) == c \in Range(UpperLetters) \cup Range(LowerLetters) \cup Digits

\* str.isalnum(): non-empty and every character alphanumeric
IsAlnum(s) == Len(s) > 0 /\ \A k \in 1..Len(s) : IsAlnumChar(s[k])

\* re.sub(r'[^\w]', '', s): keep letters, digits and the underscore
RECURSIVE StripNonWord(_)
StripNonWord(s) ==
    IF s = <<>> THEN <<>>
    ELSE IF IsAlnumChar(Head(s)) \/ Head(s) = "_"
         THEN <<Head(s)>> \o StripNonWord(Tail(s))
         ELSE StripNonWord(Tail(s))

\* " ".join(words)
RECURSIVE Join(_)
Join(words) ==
    IF words = <<>> THEN <<>>
    ELSE IF Len(words) = 1 THEN words[1]
    ELSE words[1] \o <<" ">> \o Join(Tail(words))

\* s.split() of a string whose words are separated by single blanks
RECURSIVE Split(_)
Split(s) ==
    IF s = <<>> THEN <<>>
    ELSE LET k == IF \E j \in 1..Len(s) : s[j] = " "
                  THEN CHOOSE j \in 1..Len(s) : s[j] = " " /\ \A q \in 1..(j - 1) : s[q] # " "
                  ELSE Len(s) + 1
         IN  <<SubSeq(s, 1, k - 1)>> \o Split(SubSeq(s, k + 1, Len(s)))

\* len(text.strip()) of the text whose words are ws
StrLen(ws) == Len(Join(ws))

(***************************************************************************)
(* Vocabulary of the model's texts                                         *)
(***************************************************************************)
w_the == <<"t", "h", "e">>
w_is == <<"i", "s">>
w_of == <<"o", "f">>
w_for == <<"f", "o", "r">>
w_it == <<"i", "t">>
w_as == <<"a", "s">>
w_to == <<"t", "o">>
w_be == <<"b", "e">>
w_so == <<"s", "o">>
w_and == <<"a", "n", "d">>
w_with == <<"w", "i", "t", "h">>
w_about == <<"a", "b", "o", "u", "t">>
w_this == <<"t", "h", "i", "s">>
w_through == <<"t", "h", "r", "o", "u", "g", "h">>
w_The == <<"T", "h", "e">>
w_This == <<"T", "h", "i", "s">>
w_Atom_comma == <<"A", "t", "o", "m", ",">>
w_atom == <<"a", "t", "o", "m">>
w_cell == <<"c", "e", "l", "l">>
w_Cell == <<"C", "e", "l", "l">>
w_cell_dot == <<"c", "e", "l", "l", ".">>
w_gene == <<"g", "e", "n", "e">>
w_heat == <<"h", "e", "a", "t">>
w_atp1 == <<"a", "t", "p", "1">>
w_in == <<"i", "n">>
w_rough == <<"r", "o", "u", "g", "h">>
w_us == <<"u", "s">>
w_process == <<"p", "r", "o", "c", "e", "s", "s">>
w_so_comma == <<"s", "o", ",">>
w_gene_dot == <<"g", "e", "n", "e", ".">>
w_atom_dot == <<"a", "t", "o", "m", ".">>
w_dust == <<"d", "u", "s", "t">>
w_concept == <<"c", "o", "n", "c", "e", "p", "t">>
w_element == <<"e", "l", "e", "m", "e", "n", "t">>
w_method == <<"m", "e", "t", "h", "o", "d">>
w_system == <<"s", "y", "s", "t", "e", "m">>
w_principle == <<"p", "r", "i", "n", "c", "i", "p", "l", "e">>
w_approach == <<"a", "p", "p", "r", "o", "a", "c", "h">>
w_structure == <<"s", "t", "r", "u", "c", "t", "u", "r", "e">>
w_model == <<"m", "o", "d", "e", "l">>
w_theory == <<"t", "h", "e", "o", "r", "y">>
w_mitochondria == <<"m", "i", "t", "o", "c", "h", "o", "n", "d", "r", "i", "a">>
w_powerhouse == <<"p", "o", "w", "e", "r", "h", "o", "u", "s", "e">>
w_Mitochondria == <<"M", "i", "t", "o", "c", "h", "o", "n", "d", "r", "i", "a">>
w_produce == <<"p", "r", "o", "d", "u", "c", "e">>
w_ATP == <<"A", "T", "P">>
w_respiration_dot == <<"r", "e", "s", "p", "i", "r", "a", "t", "i", "o", "n", ".">>
w_essential == <<"e", "s", "s", "e", "n", "t", "i", "a", "l">>
w_cellular == <<"c", "e", "l", "l", "u", "l", "a", "r">>
w_energy_dot == <<"e", "n", "e", "r", "g", "y", ".">>
w_bond == <<"b", "o", "n", "d">>
w_iron == <<"i", "r", "o", "n">>
w_lens == <<"l", "e", "n", "s">>
w_mass == <<"m", "a", "s", "s">>
w_node == <<"n", "o", "d", "e">>
w_orbit == <<"o", "r", "b", "i", "t">>
w_plant == <<"p", "l", "a", "n", "t">>
w_rock == <<"r", "o", "c", "k">>
w_salt == <<"s", "a", "l", "t">>
w_tree == <<"t", "r", "e", "e">>
w_volt == <<"v", "o", "l", "t">>
w_wave == <<"w", "a", "v", "e">>
w_zinc == <<"z", "i", "n", "c">>
w_acid == <<"a", "c", "i", "d">>
w_base == <<"b", "a", "s", "e">>
w_coal == <<"c", "o", "a", "l">>
w_It == <<"I", "t">>
w_so_dot == <<"s", "o", ".">>
w_be_dot == <<"b", "e", ".">>
w_cell_comma == <<"c", "e", "l", "l", ",">>
w_is_dot == <<"i", "s", ".">>

(***************************************************************************)
(* Outcomes: a call either returns a value or raises                       *)
(***************************************************************************)
Ret(v) == [raised |-> FALSE, val |-> v]
Raise  == [raised |-> TRUE, val |-> <<>>]

(***************************************************************************)
(* Tokenizers and stopwords (FlashcardGenerator, with their fallbacks)     *)
(***************************************************************************)
\* number of leading characters of w before its trailing punctuation
RECURSIVE CoreLen(_)
CoreLen(w) ==
    IF w = <<>> THEN 0
    ELSE IF w[Len(w)] \in Punctuation THEN CoreLen(SubSeq(w, 1, Len(w) - 1))
    ELSE Len(w)

\* NLTK's tokens of one word: the word, then each trailing punctuation mark
WordTokens(w) ==
    LET n == CoreLen(w)
    IN  (IF n > 0 THEN <<SubSeq(w, 1, n)>> ELSE <<>>)
        \o [j \in 1..(Len(w) - n) |-> <<w[n + j]>>]

RECURSIVE FlatTokens(_)
FlatTokens(ws) ==
    IF ws = <<>> THEN <<>> ELSE WordTokens(Head(ws)) \o FlatTokens(Tail(ws))

LowerWords(ws) == [k \in 1..Len(ws) |-> Lower(ws[k])]

\* nltk.word_tokenize(s): raises LookupError when the punkt resource is missing
word_tokenize(ws) == IF punkt_ok THEN Ret(FlatTokens(ws)) ELSE Raise

\* safe_word_tokenize with the except branch lost: the LookupError propagates
safe_word_tokenize_no_fallback(ws) == word_tokenize(LowerWords(ws))

\* FlashcardGenerator.safe_word_tokenize: word_tokenize(text.lower()),
\* on any exception text.lower().split()
safe_word_tokenize(ws) ==
    LET r == word_tokenize(LowerWords(ws))
    IN  IF r.raised THEN Ret(LowerWords(ws)) ELSE r

\* entries of NLTK's English stopword list that occur in the vocabulary
NltkStopwords == {w_the, w_is, w_of, w_for, w_it, w_as, w_to, w_be, w_so,
                  w_and, w_with, w_about, w_this, w_through, w_in}

\* the literal fallback set of get_stopwords
FallbackStopwords ==
    {<<"a">>, <<"a","n">>, w_the, w_and, <<"o","r">>, <<"b","u","t">>,
     <<"i","f">>, <<"b","e","c","a","u","s","e">>, w_as, <<"w","h","a","t">>,
     <<"w","h","i","l","e">>, w_of, w_to, <<"i","n">>, w_for, <<"o","n">>,
     <<"b","y">>, w_with, w_about, w_is, <<"a","r","e">>}

\* nltk.corpus.stopwords.words('english'): raises when the corpus is missing
stopwords_words == IF stopwords_ok THEN Ret(NltkStopwords) ELSE Raise

\* FlashcardGenerator.get_stopwords
get_stopwords ==
    LET r == stopwords_words
    IN  IF r.raised THEN Ret(FallbackStopwords) ELSE r

(***************************************************************************)
(* Keyword extraction                                                      *)
(***************************************************************************)
\* the content-word filter shared by extract_keywords and create_mcq_from_sentence
IsContentToken(w, stop) == IsAlnum(w) /\ w \notin stop /\ Len(w) > 3

RECURSIVE FilterContent(_, _)
FilterContent(words, stop) ==
    IF words = <<>> THEN <<>>
    ELSE IF IsContentToken(Head(words), stop)
         THEN <<Head(words)>> \o FilterContent(Tail(words), stop)
         ELSE FilterContent(Tail(words), stop)

\* keys of FreqDist(words) in insertion (first occurrence) order
RECURSIVE Distinct(_)
Distinct(s) ==
    IF s = <<>> THEN <<>>
    ELSE LET r == Distinct(SubSeq(s, 1, Len(s) - 1))
         IN  IF s[Len(s)] \in Range(r) THEN r ELSE Append(r, s[Len(s)])

Count(s, w) == Cardinality({k \in 1..Len(s) : s[k] = w})

RemoveAt(s, k) == SubSeq(s, 1, k - 1) \o SubSeq(s, k + 1, Len(s))

\* most_common with equal counts in reverse insertion order (an unstable selection)
RECURSIVE NLargest_ties_last(_, _, _)
NLargest_ties_last(keys, words, n) ==
    IF n <= 0 \/ keys = <<>> THEN <<>>
    ELSE LET best == CHOOSE k \in 1..Len(keys) :
                       /\ \A j \in 1..Len(keys) : Count(words, keys[j]) <= Count(words, keys[k])
                       /\ \A j \in (k + 1)..Len(keys) : Count(words, keys[j]) < Count(words, keys[k])
         IN  <<keys[best]>> \o NLargest_ties_last(RemoveAt(keys, best), words, n - 1)

\* Counter.most_common(n) = heapq.nlargest(n, items, key=count): the n keys
\* of largest count, equal counts in insertion order
RECURSIVE NLargest(_, _, _)
NLargest(keys, words, n) ==
    IF n <= 0 \/ keys = <<>> THEN <<>>
    ELSE LET best == CHOOSE k \in 1..Len(keys) :
                       /\ \A j \in 1..Len(keys) : Count(words, keys[j]) <= Count(words, keys[k])
                       /\ \A j \in 1..(k - 1) : Count(words, keys[j]) < Count(words, keys[k])
         IN  <<keys[best]>> \o NLargest(RemoveAt(keys, best), words, n - 1)

most_common(words, n) == NLargest(Distinct(words), words, n)

\* FlashcardGenerator.extract_keywords(text, num_keywords)
extract_keywords(ws, n) ==
    LET words == safe_word_tokenize(ws)
        stop  == get_stopwords
    IN  IF words.raised \/ stop.raised THEN Raise
        ELSE Ret(most_common(FilterContent(words.val, stop.val), n))

DefaultNumKeywords == 20

(***************************************************************************)
(* Question generators                                                     *)
(***************************************************************************)
\* a Python return value that may be None
None    == [none |-> TRUE, val |-> <<>>]
Some(v) == [none |-> FALSE, val |-> v]

\* an f-string: literal text, an interpolated string, literal text
Str(pre, body, post) == [pre |-> pre, body |-> body, post |-> post]

Blank == <<"_","_","_","_","_","_","_","_">>

\* str.find: position of the first occurrence of t in s, 0 when there is none
FirstIndexOf(s, t) ==
    LET hits == {k \in 1..(Len(s) - Len(t) + 1) : SubSeq(s, k, k + Len(t) - 1) = t}
    IN  IF hits = {} THEN 0 ELSE CHOOSE k \in hits : \A j \in hits : k <= j

\* s.replace(old, new, 1)
Replace1(s, old, new) ==
    LET k == FirstIndexOf(s, old)
    IN  IF k = 0 THEN s
        ELSE SubSeq(s, 1, k - 1) \o new \o SubSeq(s, k + Len(old), Len(s))

\* list.index(x): position of the first element equal to x
IndexOf(s, x) == CHOOSE k \in 1..Len(s) : s[k] = x /\ \A j \in 1..(k - 1) : s[j] # x

RECURSIVE SelectWhere(_, _)
SelectWhere(s, keep) ==
    IF s = <<>> THEN <<>>
    ELSE IF Len(s) \in keep
         THEN Append(SelectWhere(SubSeq(s, 1, Len(s) - 1), keep), s[Len(s)])
         ELSE SelectWhere(SubSeq(s, 1, Len(s) - 1), {k \in keep : k < Len(s)})

GeneralDistractors ==
    <<w_concept, w_element, w_process, w_method, w_system,
      w_principle, w_approach, w_structure, w_model, w_theory>>

\* the stopword test of line 134 inverted
McqContentWords_inverted(sent) ==
    LET words == safe_word_tokenize(sent).val
        stop_words == get_stopwords.val
    IN  SelectWhere(words, {k \in 1..Len(words) :
            IsAlnum(words[k]) /\ words[k] \in stop_words /\ Len(words[k]) > 3})

\* content_words of line 133 without the stopword test
McqContentWords_keep_stopwords(sent) ==
    FilterContent(safe_word_tokenize(sent).val, {})

\* content_words of create_mcq_from_sentence
McqContentWords(sent) ==
    FilterContent(safe_word_tokenize(sent).val, get_stopwords.val)

\* potential_distractors without the w != target_word test of line 142
PotentialDistractors_keep_target(kws, target) ==
    LET own == SelectWhere(kws, {k \in 1..Len(kws) : Len(kws[k]) > 2})
    IN  IF Len(own) < 3 THEN own \o GeneralDistractors ELSE own

\* potential_distractors of create_mcq_from_sentence for a chosen target
PotentialDistractors(kws, target) ==
    LET own == SelectWhere(kws, {k \in 1..Len(kws) : kws[k] # target /\ Len(kws[k]) > 2})
    IN  IF Len(own) < 3 THEN own \o GeneralDistractors ELSE own

\* ordered samples of k different positions out of 1..n (random.sample)
Samples(n, k) == {s \in [1..k -> 1..n] : \A a, b \in 1..k : a # b => s[a] # s[b]}

\* random.shuffle(xs): every permutation of xs, with the draw that gives it
Shuffles(xs) ==
    {[draw |-> p, ret |-> [j \in 1..Len(xs) |-> xs[p[j]]]] : p \in Permutations(1..Len(xs))}

\* FlashcardGenerator.create_mcq_from_sentence: the possible calls, each the
\* value returned with the random draws that give it,
\* <<position of the target, 3 sampled positions, permutation of the options>>
create_mcq_from_sentence(sent, kws) ==
    LET content_words == McqContentWords(sent)
    IN  IF content_words = <<>> THEN {[draw |-> <<>>, ret |-> None]}
        ELSE UNION {
          LET target_word   == content_words[t]
              question_text == Replace1(Join(sent), target_word, Blank)
              potential     == PotentialDistractors(kws, target_word)
              k             == Min(3, Len(potential))
          IN  UNION {
                LET distractors == [j \in 1..k |-> potential[smp[j]]]
                IN  {[draw |-> <<t>> \o smp \o sh.draw,
                      ret  |-> Some([type |-> "mcq",
                                     question |-> Str("Complete the sentence: ", question_text, ""),
                                     options |-> sh.ret,
                                     correct_answer |-> target_word,
                                     correct_index |-> IndexOf(sh.ret, target_word) - 1,
                                     explanation |-> Str("The correct answer is '", target_word,
                                                         "' based on the context.")])]
                     : sh \in Shuffles(Append(distractors, target_word))}
                : smp \in Samples(Len(potential), k)}
          : t \in 1..Len(content_words)}

\* content_words of create_true_false_from_sentence: raw words of the sentence
TfContentWords(sent) ==
    SelectWhere(sent, {k \in 1..Len(sent) :
                         Lower(sent[k]) \notin get_stopwords.val /\ Len(sent[k]) > 3})

\* the random draws of one create_true_false_from_sentence call: one keyword
\* position per loop iteration, the loop ending at the first replacement
\* that differs from its word
RECURSIVE TfDrawsFrom(_, _, _)
TfDrawsFrom(cw, kws, j) ==
    IF j > Len(cw) THEN {<<>>}
    ELSE {<<r>> : r \in {q \in 1..Len(kws) : Lower(kws[q]) # Lower(cw[j])}}
         \cup {<<r>> \o rest : r \in {q \in 1..Len(kws) : Lower(kws[q]) = Lower(cw[j])},
                                rest \in TfDrawsFrom(cw, kws, j + 1)}

TfDraws(sent, kws) ==
    IF Len(sent) < 8 \/ TfContentWords(sent) = <<>> \/ kws = <<>> THEN {<<>>}
    ELSE TfDrawsFrom(TfContentWords(sent), kws, 1)

\* FlashcardGenerator.create_true_false_from_sentence: the possible calls,
\* each the value returned with the random draws that give it
create_true_false_from_sentence(sent, kws) ==
    IF Len(sent) < 8 THEN {[draw |-> <<>>, ret |-> None]}
    ELSE
    LET true_q == [type |-> "true_false",
                   question |-> Str("", Join(sent), ""),
                   correct_answer |-> TRUE,
                   explanation |-> Str("This statement is directly from the source text.", <<>>, "")]
        content_words == TfContentWords(sent)
    IN  {LET \* the loop returns in its last drawn iteration iff that replacement differs
             n == Len(d)
             hit == /\ n > 0
                    /\ Lower(kws[d[n]]) # Lower(content_words[n])
         IN  [draw |-> d,
              ret  |-> IF hit
                       THEN Some(<<true_q,
                              [type |-> "true_false",
                               question |-> Str("", Replace1(Join(sent), content_words[n], kws[d[n]]), ""),
                               correct_answer |-> FALSE,
                               explanation |-> Str("This statement has been modified from the original text.", <<>>, "")]>>)
                       ELSE Some(<<true_q>>)]
         : d \in TfDraws(sent, kws)}

\* the scan of lines 199-201 taking the last qualifying word instead of the first
FillBlankIndex_last(sent, kws) ==
    LET ok == {k \in 1..Len(sent) :
                 LET clean_word == StripNonWord(Lower(sent[k]))
                 IN  clean_word \in Range(kws) /\ Len(clean_word) > 3}
    IN  IF ok = {} THEN 0 ELSE CHOOSE k \in ok : \A j \in ok : k >= j

\* position of the word create_fill_blank_from_sentence blanks, 0 when no word qualifies
FillBlankIndex(sent, kws) ==
    LET ok == {k \in 1..Len(sent) :
                 LET clean_word == StripNonWord(Lower(sent[k]))
                 IN  clean_word \in Range(kws) /\ Len(clean_word) > 3}
    IN  IF ok = {} THEN 0 ELSE CHOOSE k \in ok : \A j \in ok : k <= j

\* create_fill_blank_from_sentence recording the word before the blanked one
create_fill_blank_off_by_one(sent, kws) ==
    IF Len(sent) < 10 THEN None
    ELSE LET i == FillBlankIndex(sent, kws)
         IN  IF i = 0 THEN None
             ELSE Some([type |-> "fill_blank",
                        question |-> Str("Fill in the blank: ",
                                         Join([sent EXCEPT ![i] = Blank]), ""),
                        correct_answer |-> sent[IF i > 1 THEN i - 1 ELSE Len(sent)],
                        explanation |-> Str("The correct word is '", sent[i],
                                            "' based on the context.")])

\* FlashcardGenerator.create_fill_blank_from_sentence
create_fill_blank_from_sentence(sent, kws) ==
    IF Len(sent) < 10 THEN None
    ELSE LET i == FillBlankIndex(sent, kws)
         IN  IF i = 0 THEN None
             ELSE Some([type |-> "fill_blank",
                        question |-> Str("Fill in the blank: ",
                                         Join([sent EXCEPT ![i] = Blank]), ""),
                        correct_answer |-> sent[i],
                        explanation |-> Str("The correct word is '", sent[i],
                                            "' based on the context.")])

(***************************************************************************)
(* Inputs of the single-generator runs                                     *)
(***************************************************************************)
\* "The Atom, it is so, is in the cell and the gene."
S_fill == <<w_The, w_Atom_comma, w_it, w_is, w_so_comma, w_is, w_in, w_the,
            w_cell, w_and, w_the, w_gene_dot>>
\* "This process is the heat of the cell."
S_tf8 == <<w_This, w_process, w_is, w_the, w_heat, w_of, w_the, w_cell_dot>>
\* "the process is"
S_short == <<w_the, w_process, w_is>>
\* "it is as it is to be so."
S_none == <<w_it, w_is, w_as, w_it, w_is, w_to, w_be, w_so_dot >>
\* "it is as atom is to be so."
S_one8 == <<w_it, w_is, w_as, w_atom, w_is, w_to, w_be, w_so_dot >>

\* "it is through the rough as to be."
S_rough == <<w_it, w_is, w_through, w_the, w_rough, w_as, w_to, w_be_dot>>

K_4      == <<w_atom, w_cell, w_gene, w_heat>>
K_proc   == <<w_process, w_heat, w_cell, w_atom>>
K_noatom == <<w_cell, w_gene, w_heat, w_process>>
K_other  == <<w_heat, w_process, w_dust, w_bond>>

SynthInputs == {
    <<S_fill, K_4>>, <<S_fill, K_noatom>>, <<S_tf8, K_proc>>, <<S_tf8, K_4>>,
    <<S_short, <<>> >>, <<S_short, K_4>>, <<S_none, K_4>>, <<S_none, <<>> >>,
    <<S_one8, <<>> >>, <<S_one8, K_4>>, <<S_rough, K_4>>,
    <<S_fill, K_other>> }

GenIdle ==
    /\ num_mcq = 0 /\ num_tf = 0 /\ num_fill = 0
    /\ key_sentences = <<>>
    /\ all_cards = <<>>
    /\ idx = 0
    /\ tf_count = 0
    /\ attempted = [mcq |-> 0, tf |-> 0, fill |-> 0]
    /\ deck = Ret(<<>>)
    /\ rng_mode = "free"
    /\ tape = <<>>
    /\ pos = 1
    /\ first_run = None

SelIdle ==
    /\ num_sentences = 0
    /\ sel_out = Ret(<<>>)

DocIdle ==
    /\ uploaded_file = None
    /\ doc_out = None
    /\ tmp_files = {}
    /\ st_errors = 0

\* main_app.py 364-367: the session before any module has run
SessionInit ==
    [file_hash |-> [none |-> TRUE, val |-> <<>>],
     processing_complete |-> FALSE,
     extracted_text |-> <<>>,
     key_sentences |-> [none |-> TRUE, val |-> <<>>],
     keywords |-> [none |-> TRUE, val |-> <<>>],
     summary |-> [none |-> TRUE, val |-> <<>>]]

TbIdle ==
    /\ app_mode = "Interactive EDU"
    /\ tb_file = [none |-> TRUE, val |-> <<>>]
    /\ story_file = [none |-> TRUE, val |-> <<>>]
    /\ session_state = SessionInit
    /\ cache_data = [extract_key_elements |-> {}, generate_summary |-> {}]
    /\ ran = {}
    /\ displayed = [none |-> TRUE, val |-> <<>>]
    /\ text_content = <<>>

\* FlashcardPlayer.init_session_state: the defaults of the quiz fields
QuizDefaults ==
    /\ current_card = 0
    /\ selected_option = [none |-> TRUE, val |-> <<>>]
    /\ user_answer = <<>>
    /\ show_answer = FALSE
    /\ score = 0
    /\ total_answered = 0
    /\ quiz_completed = FALSE

QuizIdle ==
    /\ app = "flashcard_generator"
    /\ QuizDefaults
    /\ show_stats = FALSE

IoIdle ==
    /\ flashcards = <<>>
    /\ download = None
    /\ imported_flashcards = Ret(<<>>)
    /\ uploaded_json = None

SynthIdle ==
    /\ sentence = <<>>
    /\ keywords = <<>>
    /\ card_out = None

InitSynth ==
    /\ punkt_ok \in BOOLEAN
    /\ stopwords_ok \in BOOLEAN
    /\ pc = "synth_call"
    /\ \E inp \in SynthInputs : sentence = inp[1] /\ keywords = inp[2]
    /\ card_out = None
    /\ text = <<>>
    /\ num_keywords = 0
    /\ kw_out = Ret(<<>>)
    /\ GenIdle
    /\ IoIdle
    /\ SelIdle
    /\ DocIdle
    /\ TbIdle
    /\ QuizIdle

\* one call create_mcq_from_sentence(sentence, keywords)
CreateMcq ==
    /\ pc = "synth_call"
    /\ \E call \in create_mcq_from_sentence(sentence, keywords) :
          card_out' = call.ret
    /\ pc' = "mcq_done"
    /\ UNCHANGED <<quizVars, tbVars, selVars, docVars, ioVars, envVars, kwVars, sentence, keywords, genVars, rngVars>>

\* one call create_true_false_from_sentence(sentence, keywords)
CreateTrueFalse ==
    /\ pc = "synth_call"
    /\ \E call \in create_true_false_from_sentence(sentence, keywords) :
          card_out' = call.ret
    /\ pc' = "tf_done"
    /\ UNCHANGED <<quizVars, tbVars, selVars, docVars, ioVars, envVars, kwVars, sentence, keywords, genVars, rngVars>>

\* one call create_fill_blank_from_sentence(sentence, keywords)
CreateFillBlank ==
    /\ pc = "synth_call"
    /\ card_out' = create_fill_blank_from_sentence(sentence, keywords)
    /\ pc' = "fill_done"
    /\ UNCHANGED <<quizVars, tbVars, selVars, docVars, ioVars, envVars, kwVars, sentence, keywords, genVars, rngVars>>

NextSynth == CreateMcq \/ CreateTrueFalse \/ CreateFillBlank

SpecSynth == InitSynth /\ [][NextSynth]_vars

\* C1: every card returned by create_mcq_from_sentence has exactly 4 options,
\* its correct_answer occurs among them exactly once, and
\* options[correct_index] = correct_answer.
C1_McqOptionsWellFormed ==
    (pc = "mcq_done" /\ ~card_out.none) =>
        LET card == card_out.val
        IN  /\ Len(card.options) = 4
            /\ Cardinality({k \in 1..Len(card.options) :
                               card.options[k] = card.correct_answer}) = 1
            /\ card.options[card.correct_index + 1] = card.correct_answer

\* strip punctuation, then lowercase
Normalized(w) == Lower(StripNonWord(w))

\* C2: in every card returned by create_fill_blank_from_sentence the word of
\* the sentence replaced by the blank marker, punctuation-stripped and
\* lowercased, equals the normalized correct_answer and is a keyword longer
\* than 3 characters.
C2_FillBlankAnswerIsBlankedWord ==
    (pc = "fill_done" /\ ~card_out.none) =>
        LET shown   == Split(card_out.val.question.body)
            blanked == {k \in 1..Len(sentence) : shown[k] # sentence[k]}
        IN  /\ Len(shown) = Len(sentence)
            /\ Cardinality(blanked) = 1
            /\ \A k \in blanked :
                  /\ shown[k] = Blank
                  /\ Normalized(sentence[k]) = Normalized(card_out.val.correct_answer)
                  /\ Normalized(sentence[k]) \in Range(keywords)
                  /\ Len(Normalized(sentence[k])) > 3

\* a fill-blank card whose blanked word carries a capital and punctuation
C2_Witness ==
    /\ pc = "fill_done" /\ ~card_out.none
    /\ card_out.val.correct_answer # Normalized(card_out.val.correct_answer)
    /\ Normalized(card_out.val.correct_answer) \in Range(keywords)

(***************************************************************************)
(* Sentence selection                                                      *)
(***************************************************************************)
IsSentenceEnd(w) == Len(w) > 0 /\ w[Len(w)] \in {".", "!", "?"}

\* nltk.sent_tokenize on the model's texts: a sentence ends with the first
\* word that ends in a terminator
RECURSIVE PunktSentences(_)
PunktSentences(ws) ==
    IF ws = <<>> THEN <<>>
    ELSE LET ends == {k \in 1..Len(ws) : IsSentenceEnd(ws[k])}
             k    == IF ends = {} THEN Len(ws) ELSE CHOOSE e \in ends : \A j \in ends : e <= j
         IN  <<SubSeq(ws, 1, k)>> \o PunktSentences(SubSeq(ws, k + 1, Len(ws)))

\* nltk.sent_tokenize(text): raises LookupError when the punkt resource is missing
sent_tokenize(ws) == IF punkt_ok THEN Ret(PunktSentences(ws)) ELSE Raise

\* s.split('.')
RECURSIVE SplitOnDot(_)
SplitOnDot(s) ==
    LET dots == {k \in 1..Len(s) : s[k] = "."}
    IN  IF dots = {} THEN <<s>>
        ELSE LET k == CHOOSE d \in dots : \A j \in dots : d <= j
             IN  <<SubSeq(s, 1, k - 1)>> \o SplitOnDot(SubSeq(s, k + 1, Len(s)))

\* s.strip()
RECURSIVE Strip(_)
Strip(s) ==
    IF s = <<>> THEN s
    ELSE IF Head(s) = " " THEN Strip(Tail(s))
    ELSE IF s[Len(s)] = " " THEN Strip(SubSeq(s, 1, Len(s) - 1))
    ELSE s

\* [s.strip() + '.' for s in text.split('.') if s.strip()]
RECURSIVE FallbackSentences(_)
FallbackSentences(pieces) ==
    IF pieces = <<>> THEN <<>>
    ELSE IF Strip(Head(pieces)) = <<>> THEN FallbackSentences(Tail(pieces))
    ELSE <<Split(Strip(Head(pieces)) \o <<".">>)>> \o FallbackSentences(Tail(pieces))

\* FlashcardGenerator.safe_sent_tokenize
safe_sent_tokenize(ws) ==
    LET r == sent_tokenize(ws)
    IN  IF r.raised THEN Ret(FallbackSentences(SplitOnDot(Join(ws)))) ELSE r

\* score of a sentence: its tokens (with multiplicity) that are keywords
SentenceScore(sent, kws) ==
    LET toks == safe_word_tokenize(sent).val
    IN  Cardinality({k \in 1..Len(toks) : toks[k] \in Range(kws)})

\* sorted(...) with the sentences of equal score in reverse order
\* (the effect of sorted(...)[::-1] instead of reverse=True)
RECURSIVE SortedByScore_ties_reversed(_, _)
SortedByScore_ties_reversed(sents, kws) ==
    IF sents = <<>> THEN <<>>
    ELSE LET best == CHOOSE k \in 1..Len(sents) :
                       /\ \A j \in 1..Len(sents) :
                            SentenceScore(sents[j], kws) <= SentenceScore(sents[k], kws)
                       /\ \A j \in (k + 1)..Len(sents) :
                            SentenceScore(sents[j], kws) < SentenceScore(sents[k], kws)
         IN  <<sents[best]>> \o SortedByScore_ties_reversed(RemoveAt(sents, best), kws)

\* sorted(items, key=score, reverse=True): stable, equal scores keep their order
RECURSIVE SortedByScore(_, _)
SortedByScore(sents, kws) ==
    IF sents = <<>> THEN <<>>
    ELSE LET best == CHOOSE k \in 1..Len(sents) :
                       /\ \A j \in 1..Len(sents) :
                            SentenceScore(sents[j], kws) <= SentenceScore(sents[k], kws)
                       /\ \A j \in 1..(k - 1) :
                            SentenceScore(sents[j], kws) < SentenceScore(sents[k], kws)
         IN  <<sents[best]>> \o SortedByScore(RemoveAt(sents, best), kws)

DefaultNumSentences == 25

\* FlashcardGenerator.extract_key_sentences(text, num_sentences)
extract_key_sentences(ws, n) ==
    LET sentences == safe_sent_tokenize(ws)
        kws       == extract_keywords(ws, DefaultNumKeywords)
    IN  IF sentences.raised \/ kws.raised THEN Raise
        ELSE LET long == SelectWhere(sentences.val,
                             {k \in 1..Len(sentences.val) : Len(sentences.val[k]) >= 8})
                 top  == SortedByScore(long, kws.val)
             IN  Ret([sentences |-> SubSeq(top, 1, Min(n, Len(top))),
                      keywords |-> kws.val])

(***************************************************************************)
(* Deck assembly: FlashcardGenerator.generate_flashcards                   *)
(***************************************************************************)
MinTextLen == 100

\* line 216 with only the emptiness test
TooShort_only_empty(ws) == ws = <<>>

\* line 216: not text or len(text.strip()) < 100
TooShort(ws) == ws = <<>> \/ StrLen(ws) < MinTextLen

\* line 240 without the slice
TakeTf_all(tf_questions, room) == tf_questions

\* line 240 taking the last cards of the list instead of the first
TakeTf_last(tf_questions, room) ==
    SubSeq(tf_questions, Len(tf_questions) - Min(Len(tf_questions), room) + 1, Len(tf_questions))

\* line 240: tf_questions[:num_tf - tf_count]
TakeTf(tf_questions, room) == SubSeq(tf_questions, 1, Min(Len(tf_questions), room))

CountType(cards, t) == Cardinality({k \in 1..Len(cards) : cards[k].type = t})

\* a random source that is not the seeded one
DrawFrom_unseeded(calls) == calls

\* the calls possible now: all of them, or the one of the logged draw when a
\* recorded run is replayed and the log holds a draw this call can make
DrawFrom(calls) ==
    IF rng_mode = "replay" /\ pos <= Len(tape) /\ \E c \in calls : c.draw = tape[pos]
    THEN {c \in calls : c.draw = tape[pos]} ELSE calls

LogDraw(d) ==
    /\ tape' = IF rng_mode = "record" THEN Append(tape, d) ELSE tape
    /\ pos' = IF rng_mode = "free" THEN pos ELSE pos + 1
    /\ UNCHANGED <<quizVars, tbVars, rng_mode, first_run>>

\* lines 216-223: the guards and extract_key_sentences
GenStart ==
    /\ pc = "gen_call"
    /\ IF TooShort(text)
       THEN /\ deck' = Ret(<<>>)
            /\ pc' = "gen_done"
            /\ UNCHANGED <<quizVars, tbVars, key_sentences, keywords, all_cards, idx>>
       ELSE LET r == extract_key_sentences(text, DefaultNumSentences)
            IN  IF r.raised
                THEN /\ deck' = Raise
                     /\ pc' = "gen_done"
                     /\ UNCHANGED <<quizVars, tbVars, key_sentences, keywords, all_cards, idx>>
                ELSE /\ key_sentences' = r.val.sentences
                     /\ keywords' = r.val.keywords
                     /\ IF r.val.sentences = <<>>
                        THEN /\ deck' = Ret(<<>>)
                             /\ pc' = "gen_done"
                             /\ UNCHANGED <<quizVars, tbVars, all_cards, idx>>
                        ELSE /\ all_cards' = <<>>
                             /\ idx' = 1
                             /\ pc' = "gen_mcq"
                             /\ UNCHANGED deck
    /\ UNCHANGED <<quizVars, tbVars, selVars, docVars, ioVars, envVars, kwVars, sentence, card_out, quotaVars, tf_count,
                   attempted, rngVars>>

\* lines 226-234: one pass of the MCQ loop over key_sentences[:num_mcq * 2]
GenMcqIter ==
    /\ pc = "gen_mcq"
    /\ IF idx > Min(Len(key_sentences), num_mcq * 2)
       THEN /\ pc' = "gen_tf"
            /\ idx' = 1
            /\ tf_count' = 0
            /\ UNCHANGED <<quizVars, tbVars, all_cards, attempted, rngVars>>
       ELSE \E call \in DrawFrom(create_mcq_from_sentence(key_sentences[idx], keywords)) :
              LET mcq   == call.ret
                  cards == IF mcq.none THEN all_cards ELSE Append(all_cards, mcq.val)
              IN  /\ all_cards' = cards
                  /\ attempted' = [attempted EXCEPT !.mcq = @ + 1]
                  /\ LogDraw(call.draw)
                  /\ IF ~mcq.none /\ CountType(cards, "mcq") >= num_mcq
                     THEN pc' = "gen_tf" /\ idx' = 1 /\ tf_count' = 0
                     ELSE pc' = pc /\ idx' = idx + 1 /\ tf_count' = tf_count
    /\ UNCHANGED <<quizVars, tbVars, selVars, docVars, ioVars, envVars, kwVars, synthVars, quotaVars, key_sentences, deck>>

\* lines 235-241: one pass of the true/false loop
GenTfIter ==
    /\ pc = "gen_tf"
    /\ IF idx > Len(key_sentences) \/ tf_count >= num_tf
       THEN /\ pc' = "gen_fill"
            /\ idx' = 1
            /\ UNCHANGED <<quizVars, tbVars, all_cards, tf_count, attempted, rngVars>>
       ELSE \E call \in DrawFrom(create_true_false_from_sentence(key_sentences[idx], keywords)) :
              LET tf_questions == call.ret
                  taken == IF tf_questions.none THEN <<>>
                           ELSE TakeTf(tf_questions.val, num_tf - tf_count)
              IN  /\ all_cards' = all_cards \o taken
                  /\ tf_count' = tf_count + Len(taken)
                  /\ attempted' = [attempted EXCEPT !.tf = @ + 1]
                  /\ LogDraw(call.draw)
                  /\ idx' = idx + 1
                  /\ pc' = pc
    /\ UNCHANGED <<quizVars, tbVars, selVars, docVars, ioVars, envVars, kwVars, synthVars, quotaVars, key_sentences, deck>>

\* lines 244-249: one pass of the fill-in-the-blank loop
GenFillIter ==
    /\ pc = "gen_fill"
    /\ IF idx > Len(key_sentences) \/ CountType(all_cards, "fill_blank") >= num_fill
       THEN /\ pc' = "gen_shuffle"
            /\ UNCHANGED <<quizVars, tbVars, all_cards, idx, attempted>>
       ELSE LET fill_q == create_fill_blank_from_sentence(key_sentences[idx], keywords)
            IN  /\ all_cards' = IF fill_q.none THEN all_cards ELSE Append(all_cards, fill_q.val)
                /\ attempted' = [attempted EXCEPT !.fill = @ + 1]
                /\ idx' = idx + 1
                /\ pc' = pc
    /\ UNCHANGED <<quizVars, tbVars, selVars, docVars, ioVars, envVars, kwVars, synthVars, quotaVars, key_sentences, tf_count,
                   deck, rngVars>>

\* lines 251-252: random.shuffle(all_cards); return all_cards[:num_mcq + num_tf + num_fill]
GenShuffle ==
    /\ pc = "gen_shuffle"
    /\ \E sh \in DrawFrom(Shuffles(all_cards)) :
          /\ all_cards' = sh.ret
          /\ deck' = Ret(SubSeq(sh.ret, 1, Min(Len(sh.ret), num_mcq + num_tf + num_fill)))
          /\ LogDraw(sh.draw)
    /\ pc' = "gen_done"
    /\ UNCHANGED <<quizVars, tbVars, selVars, docVars, ioVars, envVars, kwVars, synthVars, quotaVars, key_sentences, idx,
                   tf_count, attempted>>

(***************************************************************************)
(* Inputs of the deck-assembly runs                                        *)
(***************************************************************************)
MaxMcq  == 1
MaxTf   == 2
MaxFill == 1

\* four sentences of 7 words holding 20 different keywords (127 characters)
T_nokey == <<w_atom, w_bond, w_cell, w_gene, w_heat, w_is, w_so_dot,
             w_iron, w_lens, w_mass, w_node, w_orbit, w_is, w_so_dot,
             w_plant, w_rock, w_salt, w_tree, w_volt, w_is, w_so_dot,
             w_wave, w_zinc, w_acid, w_base, w_coal, w_is, w_so_dot>>

\* 8-word sentences without a content word
F_1 == <<w_it, w_is, w_as, w_it, w_is, w_to, w_be, w_so_dot>>
F_2 == <<w_it, w_is, w_so, w_as, w_it, w_is, w_to, w_be_dot>>
F_3 == <<w_as, w_it, w_is, w_so, w_it, w_is, w_to, w_be_dot>>
F_4 == <<w_so, w_it, w_is, w_as, w_it, w_is, w_to, w_be_dot>>
\* "it is as dust is to be so.": its content word is the 21st of T_21kw
S_dust == <<w_it, w_is, w_as, w_dust, w_is, w_to, w_be, w_so_dot>>

\* shorter than 100 characters
T_short == F_1
\* one key sentence without content words
T_stop == T_nokey \o F_1
\* five key sentences; the only one with a content word is ranked last
T_21kw == T_nokey \o F_1 \o F_2 \o F_3 \o F_4 \o S_dust
\* "It is so, and the cell, is in it as is." and three short sentences:
\* one key sentence of 11 words, 4 keywords
S_env == <<w_It, w_is, w_so_comma, w_and, w_the, w_cell_comma, w_is, w_in,
           w_it, w_as, w_is_dot>>
T_env == S_env \o <<w_The, w_heat, w_and, w_the, w_atom, w_is, w_so_dot,
                    w_The, w_gene, w_and, w_the, w_cell, w_is, w_so_dot,
                    w_It, w_is, w_so_dot, w_It, w_is, w_so_dot>>
\* the scenario text of the specification (140 characters)
T_mito == <<w_The, w_mitochondria, w_is, w_the, w_powerhouse, w_of, w_the, w_cell_dot,
            w_Mitochondria, w_produce, w_ATP, w_through, w_respiration_dot,
            w_This, w_process, w_is, w_essential, w_for, w_cellular, w_energy_dot>>

TextsGen == {<<>>, T_short, T_nokey, T_stop, T_21kw, T_env}

GenInputs ==
    {<<t, m, f, b>> : t \in TextsGen, m \in 0..MaxMcq, f \in 0..MaxTf, b \in 0..MaxFill}

GenLocalsInit ==
    /\ key_sentences = <<>>
    /\ keywords = <<>>
    /\ all_cards = <<>>
    /\ idx = 0
    /\ tf_count = 0
    /\ attempted = [mcq |-> 0, tf |-> 0, fill |-> 0]
    /\ deck = Ret(<<>>)

InitGen ==
    /\ punkt_ok \in BOOLEAN
    /\ stopwords_ok \in BOOLEAN
    /\ pc = "gen_call"
    /\ \E inp \in GenInputs :
          text = inp[1] /\ num_mcq = inp[2] /\ num_tf = inp[3] /\ num_fill = inp[4]
    /\ GenLocalsInit
    /\ rng_mode = "free" /\ tape = <<>> /\ pos = 1 /\ first_run = None
    /\ num_keywords = 0
    /\ kw_out = Ret(<<>>)
    /\ sentence = <<>>
    /\ card_out = None
    /\ IoIdle
    /\ SelIdle
    /\ DocIdle
    /\ TbIdle
    /\ QuizIdle

NextGen == GenStart \/ GenMcqIter \/ GenTfIter \/ GenFillIter \/ GenShuffle

SpecGen == InitGen /\ [][NextGen]_vars

\* the sentences of at least 8 words that sentence splitting finds in the text
LongSentences(ws) ==
    LET sents == safe_sent_tokenize(ws).val
    IN  {k \in 1..Len(sents) : Len(sents[k]) >= 8}

\* C3: generate_flashcards returns an empty deck, without raising, for every
\* text shorter than 100 characters (the empty text included) and for every
\* text in which no sentence has at least 8 words, whatever the quotas are.
C3_EmptyDeckWithoutRaising ==
    (pc = "gen_done" /\ (StrLen(text) < 100 \/ LongSentences(text) = {})) =>
        /\ ~deck.raised
        /\ Len(deck.val) = 0

\* a text of 100 characters or more without a sentence of 8 words, run to
\* the end with a quota asked for
C3_Witness ==
    /\ pc = "gen_done"
    /\ StrLen(text) >= 100
    /\ LongSentences(text) = {}
    /\ num_mcq > 0 /\ num_tf > 0 /\ num_fill > 0
    /\ ~deck.raised /\ Len(deck.val) = 0

\* a text shorter than 100 characters that holds a sentence of 8 words
C3_WitnessShort ==
    /\ pc = "gen_done"
    /\ text # <<>> /\ StrLen(text) < 100
    /\ LongSentences(text) # {}
    /\ num_tf > 0

\* C8: the returned deck has at most num_mcq mcq cards, at most num_tf
\* true_false cards and at most num_fill fill_blank cards, hence at most
\* num_mcq + num_tf + num_fill cards.
C8_CountsWithinQuotas ==
    (pc = "gen_done" /\ ~deck.raised) =>
        /\ CountType(deck.val, "mcq") <= num_mcq
        /\ CountType(deck.val, "true_false") <= num_tf
        /\ CountType(deck.val, "fill_blank") <= num_fill
        /\ Len(deck.val) <= num_mcq + num_tf + num_fill

\* a finished run with num_tf = 1 whose first sentence yields two true/false
\* cards, of which the deck holds one
C8_Witness ==
    /\ pc = "gen_done"
    /\ num_tf = 1
    /\ key_sentences # <<>>
    /\ \A call \in create_true_false_from_sentence(key_sentences[1], keywords) :
          Len(call.ret.val) = 2
    /\ CountType(deck.val, "true_false") = 1

\* C9: for each question type the loop stops only when the quota of the type
\* is met or every sentence of the ranked pool has been attempted for it: a
\* deck with fewer cards of a type than the quota means the whole pool was
\* tried, so that no sentence left untried could yield a card of the type.
C9_QuotaMetOrPoolExhausted ==
    (pc = "gen_done" /\ ~deck.raised /\ key_sentences # <<>>) =>
        /\ CountType(deck.val, "mcq") < num_mcq =>
              /\ attempted.mcq = Len(key_sentences)
              /\ \A k \in (attempted.mcq + 1)..Len(key_sentences) :
                    McqContentWords(key_sentences[k]) = <<>>
        /\ CountType(deck.val, "true_false") < num_tf =>
              attempted.tf = Len(key_sentences)
        /\ CountType(deck.val, "fill_blank") < num_fill =>
              attempted.fill = Len(key_sentences)

(***************************************************************************)
(* The scenario of the specification: the mitochondria text, one card of   *)
(* each type asked for                                                     *)
(***************************************************************************)
\* one copy of the text has 140 characters, more than the 100 asked for
ScenarioTexts == {T_mito}

InitScenario ==
    /\ punkt_ok \in BOOLEAN
    /\ stopwords_ok \in BOOLEAN
    /\ pc = "gen_call"
    /\ text \in ScenarioTexts
    /\ num_mcq = 1 /\ num_tf = 1 /\ num_fill = 1
    /\ GenLocalsInit
    /\ rng_mode = "free" /\ tape = <<>> /\ pos = 1 /\ first_run = None
    /\ num_keywords = 0
    /\ kw_out = Ret(<<>>)
    /\ sentence = <<>>
    /\ card_out = None
    /\ IoIdle
    /\ SelIdle
    /\ DocIdle
    /\ TbIdle
    /\ QuizIdle

SpecScenario == InitScenario /\ [][NextGen]_vars

NonEmptyStr(x) == x.pre # "" \/ x.body # <<>> \/ x.post # ""

\* C5: for the mitochondria text (sentences of 8, 5 and 7 words) with
\* num_mcq = num_tf = num_fill = 1 the deck has exactly 3 cards, one of each
\* type, each with a non-empty explanation.
C5_ScenarioYieldsThreeCards ==
    (pc = "gen_done" /\ text \in ScenarioTexts
       /\ num_mcq = 1 /\ num_tf = 1 /\ num_fill = 1) =>
        /\ ~deck.raised
        /\ Len(deck.val) = 3
        /\ CountType(deck.val, "mcq") = 1
        /\ CountType(deck.val, "true_false") = 1
        /\ CountType(deck.val, "fill_blank") = 1
        /\ \A k \in 1..Len(deck.val) : NonEmptyStr(deck.val[k].explanation)

\* C5 amended: for the mitochondria text with num_mcq = num_tf = num_fill = 1
\* the deck has exactly 2 cards, one mcq and the true_false card that states
\* the 8-word sentence verbatim, and no fill_blank card (no sentence has the
\* 10 words a fill_blank needs); each card has a non-empty explanation.
C5_ScenarioYieldsTwoCards ==
    (pc = "gen_done" /\ text \in ScenarioTexts
       /\ num_mcq = 1 /\ num_tf = 1 /\ num_fill = 1) =>
        /\ ~deck.raised
        /\ Len(deck.val) = 2
        /\ CountType(deck.val, "mcq") = 1
        /\ CountType(deck.val, "true_false") = 1
        /\ CountType(deck.val, "fill_blank") = 0
        /\ \A k \in 1..Len(deck.val) :
              /\ NonEmptyStr(deck.val[k].explanation)
              /\ deck.val[k].type = "true_false" =>
                    /\ deck.val[k].correct_answer = TRUE
                    /\ deck.val[k].question.body = Join(key_sentences[1])

\* the scenario run to its end: three fill_blank attempts were not made on a
\* sentence of 10 words, the deck holds the mcq card first
C5_Witness ==
    /\ pc = "gen_done" /\ text = T_mito
    /\ num_mcq = 1 /\ num_tf = 1 /\ num_fill = 1
    /\ Len(key_sentences) = 1 /\ Len(key_sentences[1]) = 8
    /\ attempted = [mcq |-> 1, tf |-> 1, fill |-> 1]
    /\ Len(deck.val) = 2 /\ deck.val[1].type = "mcq"

(***************************************************************************)
(* Two runs of generate_flashcards on the same input, the second fed the   *)
(* random draws of the first                                               *)
(***************************************************************************)
DetInputs == {<<T_env, 1, 1, 0>>, <<T_env, 0, 2, 1>>, <<T_stop, 1, 1, 1>>}

InitDet ==
    /\ punkt_ok \in BOOLEAN
    /\ stopwords_ok \in BOOLEAN
    /\ pc = "gen_call"
    /\ \E inp \in DetInputs :
          text = inp[1] /\ num_mcq = inp[2] /\ num_tf = inp[3] /\ num_fill = inp[4]
    /\ GenLocalsInit
    /\ rng_mode = "record" /\ tape = <<>> /\ pos = 1 /\ first_run = None
    /\ num_keywords = 0
    /\ kw_out = Ret(<<>>)
    /\ sentence = <<>>
    /\ card_out = None
    /\ IoIdle
    /\ SelIdle
    /\ DocIdle
    /\ TbIdle
    /\ QuizIdle

\* the second call of generate_flashcards(text, num_mcq, num_tf, num_fill):
\* the random source is reseeded, the NLTK resources may have come or gone
Rerun ==
    /\ pc = "gen_done"
    /\ rng_mode = "record"
    /\ first_run' = Some([punkt_ok |-> punkt_ok, stopwords_ok |-> stopwords_ok,
                          deck |-> deck])
    /\ rng_mode' = "replay"
    /\ pos' = 1
    /\ punkt_ok' \in BOOLEAN
    /\ stopwords_ok' \in BOOLEAN
    /\ pc' = "gen_call"
    /\ key_sentences' = <<>>
    /\ keywords' = <<>>
    /\ all_cards' = <<>>
    /\ idx' = 0
    /\ tf_count' = 0
    /\ attempted' = [mcq |-> 0, tf |-> 0, fill |-> 0]
    /\ deck' = Ret(<<>>)
    /\ UNCHANGED <<quizVars, tbVars, selVars, docVars, ioVars, kwVars, sentence, card_out, quotaVars, tape>>

NextDet == GenStart \/ GenMcqIter \/ GenTfIter \/ GenFillIter \/ GenShuffle \/ Rerun

SpecDet == InitDet /\ [][NextDet]_vars

CardEq(c, d) == c.type = d.type /\ c = d

\* same length, same order, same card content
DeckEq(a, b) ==
    /\ a.raised = b.raised
    /\ Len(a.val) = Len(b.val)
    /\ \A k \in 1..Len(a.val) : CardEq(a.val[k], b.val[k])

BothRunsDone == pc = "gen_done" /\ rng_mode = "replay" /\ ~first_run.none

MaxK == 3

TextsKw == {
    <<>>,
    <<w_atom, w_cell, w_atom, w_cell, w_gene>>,
    <<w_gene, w_cell, w_atom, w_cell, w_atom>>,
    <<w_Atom_comma, w_the, w_cell_dot, w_This, w_atom, w_is, w_with, w_gene>>,
    <<w_the, w_is, w_of, w_for>>,
    <<w_heat, w_gene, w_cell, w_atom, w_atp1>>,
    <<w_Cell, w_cell, w_cell_dot, w_atom>>,
    <<w_through, w_heat, w_This, w_heat, w_through, w_about>> }

InitKw ==
    /\ punkt_ok \in BOOLEAN
    /\ stopwords_ok \in BOOLEAN
    /\ pc = "kw_call"
    /\ text \in TextsKw
    /\ num_keywords \in 0..MaxK
    /\ kw_out = Ret(<<>>)
    /\ SynthIdle
    /\ GenIdle
    /\ IoIdle
    /\ SelIdle
    /\ DocIdle
    /\ TbIdle
    /\ QuizIdle

\* one call extract_keywords(text, num_keywords)
ExtractKeywords ==
    /\ pc = "kw_call"
    /\ kw_out' = extract_keywords(text, num_keywords)
    /\ pc' = "kw_done"
    /\ UNCHANGED <<quizVars, tbVars, selVars, docVars, ioVars, envVars, text, num_keywords, synthVars, genVars, rngVars>>

NextKw == ExtractKeywords

SpecKw == InitKw /\ [][NextKw]_vars

\* C6: extract_keywords never raises, whether the tokenizer and stopword
\* resources load or fail, and returns the empty list for the empty string.
C6_ExtractKeywordsNeverRaises ==
    pc = "kw_done" =>
        /\ ~kw_out.raised
        /\ (text = <<>> => kw_out.val = <<>>)

\* a call on the fallback path (both resources missing) that returned keywords
C6_Witness ==
    /\ pc = "kw_done"
    /\ ~punkt_ok /\ ~stopwords_ok
    /\ ~kw_out.raised /\ Len(kw_out.val) > 0

\* C10: the result of extract_keywords(text, K) is the reference result: the
\* lowercased tokens that are alphanumeric, longer than 3 characters and not
\* stopwords, without duplicates, by descending frequency, equal frequencies
\* by first occurrence in the text, cut to at most K entries.
C10_KeywordsAreReference ==
    pc = "kw_done" =>
        LET toks == safe_word_tokenize(text).val
            stop == get_stopwords.val
            Q == {toks[k] : k \in {j \in 1..Len(toks) :
                      IsAlnum(toks[j]) /\ Len(toks[j]) > 3 /\ toks[j] \notin stop}}
            freq(t) == Cardinality({k \in 1..Len(toks) : toks[k] = t})
            first(t) == CHOOSE k \in 1..Len(toks) :
                            toks[k] = t /\ \A j \in 1..(k - 1) : toks[j] # t
            Before(a, b) == \/ freq(a) > freq(b)
                            \/ freq(a) = freq(b) /\ first(a) < first(b)
            r == kw_out.val
        IN  /\ ~kw_out.raised
            /\ Len(r) = Min(num_keywords, Cardinality(Q))
            /\ \A k \in 1..Len(r) : r[k] \in Q /\ r[k] = Lower(r[k])
            /\ \A j, k \in 1..Len(r) : j < k => Before(r[j], r[k])
            /\ \A q \in Q \ Range(r) : \A k \in 1..Len(r) : Before(r[k], q)

\* a call whose result is cut (a qualifying token is left out) and whose
\* first two keywords have equal frequency
C10_Witness ==
    /\ pc = "kw_done"
    /\ Len(kw_out.val) = 2 /\ num_keywords = 2
    /\ Count(safe_word_tokenize(text).val, kw_out.val[1])
         = Count(safe_word_tokenize(text).val, kw_out.val[2])
    /\ \E k \in 1..Len(text) :
          /\ IsContentToken(Lower(text[k]), get_stopwords.val)
          /\ Lower(text[k]) \notin Range(kw_out.val)

(***************************************************************************)
(* Deck export and import (Import & Export tab).  The values are Python's: *)
(* str, bool, int, list and dict, the JSON text is a sequence of           *)
(* characters.                                                             *)
(***************************************************************************)
JStr(s)   == [str |-> s]
JBool(b)  == [bool |-> b]
JNum(n)   == [num |-> n]
JArr(xs)  == [arr |-> xs]
JObj(ms)  == [obj |-> ms]
JNull     == [null |-> TRUE]
Member(k, v) == [key |-> k, value |-> v]

IsStr(v)  == "str" \in DOMAIN v
IsBool(v) == "bool" \in DOMAIN v
IsNum(v)  == "num" \in DOMAIN v
IsArr(v)  == "arr" \in DOMAIN v
IsObj(v)  == "obj" \in DOMAIN v

DigitSeq == <<"0","1","2","3","4","5","6","7","8","9">>

\* str(n) for n >= 0
RECURSIVE NumChars(_)
NumChars(n) ==
    IF n < 10 THEN <<DigitSeq[n + 1]>>
    ELSE NumChars(n \div 10) \o <<DigitSeq[(n % 10) + 1]>>

\* the characters of a JSON string body, quotes and backslashes escaped
RECURSIVE Escape(_)
Escape(s) ==
    IF s = <<>> THEN <<>>
    ELSE LET c == Head(s)
         IN  (IF c = "\"" THEN <<"\\", "\"">>
              ELSE IF c = "\\" THEN <<"\\", "\\">>
              ELSE IF c = "\n" THEN <<"\\", "n">>
              ELSE <<c>>) \o Escape(Tail(s))

\* json.dumps(value) with the default separators
RECURSIVE Dumps(_)
RECURSIVE DumpsItems(_)
RECURSIVE DumpsMembers(_)
Dumps(v) ==
    IF IsStr(v) THEN <<"\"">> \o Escape(v.str) \o <<"\"">>
    ELSE IF IsBool(v) THEN (IF v.bool THEN <<"t","r","u","e">> ELSE <<"f","a","l","s","e">>)
    ELSE IF IsNum(v) THEN NumChars(v.num)
    ELSE IF IsArr(v) THEN <<"[">> \o DumpsItems(v.arr) \o <<"]">>
    ELSE IF IsObj(v) THEN <<"{">> \o DumpsMembers(v.obj) \o <<"}">>
    ELSE <<"n","u","l","l">>

DumpsItems(xs) ==
    IF xs = <<>> THEN <<>>
    ELSE Dumps(Head(xs))
         \o (IF Len(xs) > 1 THEN <<",", " ">> \o DumpsItems(Tail(xs)) ELSE <<>>)

DumpsMembers(ms) ==
    IF ms = <<>> THEN <<>>
    ELSE <<"\"">> \o Escape(Head(ms).key) \o <<"\"", ":", " ">> \o Dumps(Head(ms).value)
         \o (IF Len(ms) > 1 THEN <<",", " ">> \o DumpsMembers(Tail(ms)) ELSE <<>>)

\* result of a parsing step: the value read and the position after it
ParseFail == [ok |-> FALSE, val |-> JNull, next |-> 0]
ParseOk(v, n) == [ok |-> TRUE, val |-> v, next |-> n]

CharAt(s, i) == IF i >= 1 /\ i <= Len(s) THEN s[i] ELSE ""

RECURSIVE SkipWs(_, _)
SkipWs(s, i) == IF CharAt(s, i) \in {" ", "\n", "\t"} THEN SkipWs(s, i + 1) ELSE i

\* the body of a JSON string from position i, after the opening quote
RECURSIVE ParseStrBody(_, _, _)
ParseStrBody(s, i, acc) ==
    IF i > Len(s) THEN ParseFail
    ELSE IF s[i] = "\"" THEN ParseOk(JStr(acc), i + 1)
    ELSE IF s[i] = "\\"
         THEN IF CharAt(s, i + 1) \in {"\"", "\\", "/"}
              THEN ParseStrBody(s, i + 2, Append(acc, s[i + 1]))
              ELSE IF CharAt(s, i + 1) = "n"
              THEN ParseStrBody(s, i + 2, Append(acc, "\n"))
              ELSE ParseFail
    ELSE IF s[i] = "\n" THEN ParseFail
    ELSE ParseStrBody(s, i + 1, Append(acc, s[i]))

DigitVal(c) == (CHOOSE k \in 1..10 : DigitSeq[k] = c) - 1

RECURSIVE ParseDigits(_, _, _)
ParseDigits(s, i, acc) ==
    IF CharAt(s, i) \in Range(DigitSeq)
    THEN ParseDigits(s, i + 1, acc * 10 + DigitVal(s[i]))
    ELSE ParseOk(JNum(acc), i)

ParseWord(s, i, word, v) ==
    IF i + Len(word) - 1 <= Len(s) /\ SubSeq(s, i, i + Len(word) - 1) = word
    THEN ParseOk(v, i + Len(word)) ELSE ParseFail

RECURSIVE ParseValue(_, _)
RECURSIVE ParseItems(_, _, _)
RECURSIVE ParseMembers(_, _, _)
ParseValue(s, i0) ==
    LET i == SkipWs(s, i0)
        c == CharAt(s, i)
    IN  IF c = "\"" THEN ParseStrBody(s, i + 1, <<>>)
        ELSE IF c = "[" THEN ParseItems(s, i + 1, <<>>)
        ELSE IF c = "{" THEN ParseMembers(s, i + 1, <<>>)
        ELSE IF c \in Range(DigitSeq) THEN ParseDigits(s, i, 0)
        ELSE IF c = "t" THEN ParseWord(s, i, <<"t","r","u","e">>, JBool(TRUE))
        ELSE IF c = "f" THEN ParseWord(s, i, <<"f","a","l","s","e">>, JBool(FALSE))
        ELSE IF c = "n" THEN ParseWord(s, i, <<"n","u","l","l">>, JNull)
        ELSE ParseFail

\* the items of an array from position i0, after "[" or ","
ParseItems(s, i0, acc) ==
    LET i == SkipWs(s, i0)
    IN  IF CharAt(s, i) = "]" /\ acc = <<>> THEN ParseOk(JArr(<<>>), i + 1)
        ELSE LET r == ParseValue(s, i)
                 j == SkipWs(s, r.next)
             IN  IF ~r.ok THEN ParseFail
                 ELSE IF CharAt(s, j) = "," THEN ParseItems(s, j + 1, Append(acc, r.val))
                 ELSE IF CharAt(s, j) = "]" THEN ParseOk(JArr(Append(acc, r.val)), j + 1)
                 ELSE ParseFail

\* the members of an object from position i0, after "{" or ","
ParseMembers(s, i0, acc) ==
    LET i == SkipWs(s, i0)
    IN  IF CharAt(s, i) = "}" /\ acc = <<>> THEN ParseOk(JObj(<<>>), i + 1)
        ELSE IF CharAt(s, i) # "\"" THEN ParseFail
        ELSE LET k == ParseStrBody(s, i + 1, <<>>)
                 c == SkipWs(s, k.next)
                 r == ParseValue(s, c + 1)
                 j == SkipWs(s, r.next)
             IN  IF ~k.ok \/ CharAt(s, c) # ":" THEN ParseFail
                 ELSE IF ~r.ok THEN ParseFail
                 ELSE IF CharAt(s, j) = ","
                      THEN ParseMembers(s, j + 1, Append(acc, Member(k.val.str, r.val)))
                 ELSE IF CharAt(s, j) = "}"
                      THEN ParseOk(JObj(Append(acc, Member(k.val.str, r.val))), j + 1)
                 ELSE ParseFail

\* json.loads(text): raises unless the text is one JSON value
Loads(s) ==
    LET r == ParseValue(s, 1)
    IN  IF r.ok /\ SkipWs(s, r.next) = Len(s) + 1 THEN Ret(r.val) ELSE Raise

\* field names of the deck JSON schema
k_type           == <<"t","y","p","e">>
k_question       == <<"q","u","e","s","t","i","o","n">>
k_options        == <<"o","p","t","i","o","n","s">>
k_correct_answer == <<"c","o","r","r","e","c","t","_","a","n","s","w","e","r">>
k_correct_index  == <<"c","o","r","r","e","c","t","_","i","n","d","e","x">>
k_explanation    == <<"e","x","p","l","a","n","a","t","i","o","n">>
t_mcq        == <<"m","c","q">>
t_true_false == <<"t","r","u","e","_","f","a","l","s","e">>
t_fill_blank == <<"f","i","l","l","_","b","l","a","n","k">>

\* key in dict
HasKey(d, k) == \E m \in 1..Len(d.obj) : d.obj[m].key = k

\* dict[key]
Get(d, k) == d.obj[CHOOSE m \in 1..Len(d.obj) :
                     /\ d.obj[m].key = k
                     /\ \A n \in (m + 1)..Len(d.obj) : d.obj[n].key # k].value

\* export_flashcards_json(flashcards): the deck as a JSON array of flat
\* records, one per flashcard, and its base64 form
export_flashcards_json(cards) ==
    LET json_str == Dumps(JArr(cards))
    IN  Ret([b64 |-> [base64_of |-> json_str], json_str |-> json_str])

\* a record counts as valid as soon as it declares a type
ValidRecord_type_only(rec) ==
    IsObj(rec) /\ HasKey(rec, k_type)

\* a record has the fields required for its declared type
ValidRecord(rec) ==
    /\ IsObj(rec)
    /\ HasKey(rec, k_type) /\ HasKey(rec, k_question) /\ HasKey(rec, k_correct_answer)
    /\ (IsStr(Get(rec, k_type)) /\ Get(rec, k_type).str = t_mcq) =>
          HasKey(rec, k_options) /\ HasKey(rec, k_correct_index)

\* import_flashcards_json(json_data): the valid records of the JSON array in
\* their order, and the number of records skipped
import_flashcards_json(json_data) ==
    LET data == Loads(json_data)
    IN  IF data.raised THEN Raise
        ELSE IF ~IsArr(data.val) THEN Raise
        ELSE LET recs == data.val.arr
                 kept == {k \in 1..Len(recs) : ValidRecord(recs[k])}
             IN  Ret([cards |-> SelectWhere(recs, kept),
                      skipped |-> Len(recs) - Cardinality(kept)])

\* main_app.py 274-286: "Export to JSON" pressed on a non-empty deck
ExportToJson ==
    /\ pc = "io_ready"
    /\ flashcards # <<>>
    /\ LET r == export_flashcards_json(flashcards)
       IN  download' = IF ~r.raised /\ r.val.json_str # <<>>
                       THEN Some(r.val.json_str) ELSE None
    /\ pc' = "io_exported"
    /\ UNCHANGED <<quizVars, tbVars, selVars, docVars, envVars, kwVars, synthVars, genVars, rngVars, flashcards,
                   imported_flashcards, uploaded_json>>

\* the preview slice of line 306 applied to the imported deck itself
ImportJson_preview_only ==
    /\ pc = "io_exported"
    /\ ~download.none
    /\ LET json_data == download.val
           r == import_flashcards_json(json_data)
       IN  imported_flashcards' =
              IF r.raised THEN r
              ELSE Ret([cards |-> SubSeq(r.val.cards, 1, Min(2, Len(r.val.cards))),
                        skipped |-> r.val.skipped])
    /\ pc' = "io_imported"
    /\ UNCHANGED <<quizVars, tbVars, selVars, docVars, envVars, kwVars, synthVars, genVars, rngVars, flashcards, download,
                   uploaded_json>>

\* main_app.py 298-301: the downloaded file is uploaded and imported
ImportJson ==
    /\ pc = "io_exported"
    /\ ~download.none
    /\ LET json_data == download.val
       IN  imported_flashcards' = import_flashcards_json(json_data)
    /\ pc' = "io_imported"
    /\ UNCHANGED <<quizVars, tbVars, selVars, docVars, envVars, kwVars, synthVars, genVars, rngVars, flashcards, download,
                   uploaded_json>>

(***************************************************************************)
(* Decks of the export/import runs                                         *)
(***************************************************************************)
MaxDeck == 3

s_quote == <<"a", "\"", "b">>
s_slash == <<"c", "\\", "n">>
s_blank == <<"_", "_", " ", "x", ",">>
s_true  == <<"t", "r", "u", "e">>

Card_mcq ==
    JObj(<<Member(k_type, JStr(t_mcq)),
           Member(k_question, JStr(s_blank)),
           Member(k_options, JArr(<<JStr(s_quote), JStr(s_true), JStr(<<"1">>), JStr(s_slash)>>)),
           Member(k_correct_answer, JStr(s_true)),
           Member(k_correct_index, JNum(1)),
           Member(k_explanation, JStr(s_quote))>>)

Card_mcq10 ==
    JObj(<<Member(k_type, JStr(t_mcq)),
           Member(k_question, JStr(<<"q", "?">>)),
           Member(k_options, JArr(<<JStr(<<"0">>), JStr(<<>>), JStr(<<"[">>), JStr(<<"}">>)>>)),
           Member(k_correct_answer, JStr(<<"0">>)),
           Member(k_correct_index, JNum(0)),
           Member(k_explanation, JStr(<<"\\">>))>>)

Card_tf(b) ==
    JObj(<<Member(k_type, JStr(t_true_false)),
           Member(k_question, JStr(s_slash)),
           Member(k_correct_answer, JBool(b)),
           Member(k_explanation, JStr(<<"e", ":", " ", "1">>))>>)

Card_fill ==
    JObj(<<Member(k_type, JStr(t_fill_blank)),
           Member(k_question, JStr(s_blank)),
           Member(k_correct_answer, JStr(s_true)),
           Member(k_explanation, JStr(<<"\"", ",", " ", "\"">>))>>)

IoCards == {Card_mcq, Card_mcq10, Card_tf(TRUE), Card_tf(FALSE), Card_fill}

IoDecks == UNION {[1..n -> IoCards] : n \in 1..MaxDeck}

InitIO ==
    /\ punkt_ok = TRUE
    /\ stopwords_ok = TRUE
    /\ pc = "io_ready"
    /\ flashcards \in IoDecks
    /\ download = None
    /\ imported_flashcards = Ret(<<>>)
    /\ uploaded_json = None
    /\ text = <<>>
    /\ num_keywords = 0
    /\ kw_out = Ret(<<>>)
    /\ SynthIdle
    /\ GenIdle
    /\ SelIdle
    /\ DocIdle
    /\ TbIdle
    /\ QuizIdle

NextIO == ExportToJson \/ ImportJson

SpecIO == InitIO /\ [][NextIO]_vars

FieldNames == {k_type, k_question, k_options, k_correct_answer, k_correct_index,
               k_explanation}

\* the two cards have the same fields of the schema, with identical values
SameFields(c, d) ==
    \A k \in FieldNames :
        /\ HasKey(c, k) <=> HasKey(d, k)
        /\ HasKey(c, k) => Get(c, k) = Get(d, k)

\* C7: exporting a non-empty deck to JSON and importing the result yields a
\* deck of the same length whose cards, position by position, have identical
\* values of type, question, options, correct_answer, correct_index and
\* explanation.
C7_ExportImportRoundTrip ==
    pc = "io_imported" =>
        /\ ~imported_flashcards.raised
        /\ Len(imported_flashcards.val.cards) = Len(flashcards)
        /\ \A k \in 1..Len(flashcards) :
              SameFields(imported_flashcards.val.cards[k], flashcards[k])

\* a deck of three cards of the three types, with quotes and backslashes in
\* its strings, exported and imported
C7_Witness ==
    /\ pc = "io_imported"
    /\ Len(flashcards) = 3
    /\ flashcards[1] = Card_mcq /\ flashcards[2] = Card_tf(FALSE) /\ flashcards[3] = Card_fill
    /\ ~download.none
    /\ Len(imported_flashcards.val.cards) = 3

(***************************************************************************)
(* Runs of extract_key_sentences                                           *)
(***************************************************************************)
MaxN == 3

\* 8-word sentences with 2, 1 and 1 keyword tokens, and a 3-word sentence
S_two   == <<w_atom, w_is, w_as, w_cell, w_is, w_to, w_be, w_so_dot>>
S_gene8 == <<w_it, w_is, w_as, w_gene, w_is, w_to, w_be, w_so_dot>>
S_twice == <<w_heat, w_is, w_as, w_heat, w_is, w_to, w_be, w_so_dot>>
S_three == <<w_It, w_is, w_so_dot>>

TextsSel == {
    <<>>,
    S_three \o S_three,
    S_one8 \o S_three \o S_two \o S_gene8 \o F_1,
    F_1 \o S_gene8 \o S_one8 \o S_twice,
    S_gene8 \o S_one8 \o S_gene8 \o S_two,
    S_one8 \o F_1 \o F_2 \o S_three \o S_gene8 }

InitSel ==
    /\ punkt_ok \in BOOLEAN
    /\ stopwords_ok \in BOOLEAN
    /\ pc = "sel_call"
    /\ text \in TextsSel
    /\ num_sentences \in 0..MaxN
    /\ sel_out = Ret(<<>>)
    /\ num_keywords = 0
    /\ kw_out = Ret(<<>>)
    /\ SynthIdle
    /\ GenIdle
    /\ IoIdle
    /\ DocIdle
    /\ TbIdle
    /\ QuizIdle

\* one call extract_key_sentences(text, num_sentences)
ExtractKeySentences ==
    /\ pc = "sel_call"
    /\ sel_out' = extract_key_sentences(text, num_sentences)
    /\ pc' = "sel_done"
    /\ UNCHANGED <<quizVars, tbVars, num_sentences, docVars, ioVars, envVars, kwVars, synthVars,
                   genVars, rngVars>>

NextSel == ExtractKeySentences

SpecSel == InitSel /\ [][NextSel]_vars

\* the number of tokens of the sentence, with multiplicity, that are keywords
RefScore(sent, kws) ==
    LET toks == safe_word_tokenize(sent).val
    IN  Cardinality({k \in 1..Len(toks) : \E q \in 1..Len(kws) : kws[q] = toks[k]})

\* C11: extract_key_sentences(text, N) returns at most N sentences, each of
\* at least 8 words, ordered by non-increasing score (the number of the
\* sentence's tokens that are keywords), sentences of equal score in their
\* document order: the k-th sentence returned is the sentence of the document
\* that has k - 1 sentences of 8 words ranked before it.
C11_KeySentencesRanked ==
    pc = "sel_done" =>
        /\ ~sel_out.raised
        /\ LET out   == sel_out.val.sentences
               kws   == sel_out.val.keywords
               doc   == safe_sent_tokenize(text).val
               long  == {i \in 1..Len(doc) : Len(doc[i]) >= 8}
               Before(j, i) == \/ RefScore(doc[j], kws) > RefScore(doc[i], kws)
                               \/ /\ RefScore(doc[j], kws) = RefScore(doc[i], kws)
                                  /\ j < i
               Rank(i) == Cardinality({j \in long : Before(j, i)}) + 1
           IN  /\ Len(out) <= num_sentences
               /\ Len(out) = Min(num_sentences, Cardinality(long))
               /\ \A k \in 1..Len(out) : Len(out[k]) >= 8
               /\ \A k \in 1..(Len(out) - 1) :
                     RefScore(out[k], kws) >= RefScore(out[k + 1], kws)
               /\ \A k \in 1..Len(out) :
                     \E i \in long : Rank(i) = k /\ out[k] = doc[i]

\* four sentences of 8 words with scores 1, 0, 2, 1 cut to three: the two
\* sentences of score 1 follow the sentence of score 2 in document order
C11_Witness ==
    /\ pc = "sel_done"
    /\ num_sentences = 3
    /\ text = S_one8 \o S_three \o S_two \o S_gene8 \o F_1
    /\ sel_out.val.sentences = <<S_two, S_one8, S_gene8>>

(***************************************************************************)
(* The true/false generator                                                *)
(***************************************************************************)
\* some keyword differs, case-insensitively, from some content word of the sentence
SomeKeywordDiffers(sent, kws) ==
    \E q \in 1..Len(kws) : \E k \in 1..Len(sent) :
        /\ Len(sent[k]) > 3
        /\ Lower(sent[k]) \notin get_stopwords.val
        /\ Lower(kws[q]) # Lower(sent[k])

\* C12: create_true_false_from_sentence returns only the true card exactly
\* when no keyword differs case-insensitively from the sentence's content
\* words, and both the true and a false card whenever some keyword differs
\* from some content word, for every outcome of the random choices.
C12_FalseCardWheneverPossible ==
    (pc = "tf_done" /\ ~card_out.none) =>
        /\ Len(card_out.val) \in {1, 2}
        /\ card_out.val[1].correct_answer = TRUE
        /\ Len(card_out.val) = 1 <=> ~SomeKeywordDiffers(sentence, keywords)

\* C13: every false card of create_true_false_from_sentence has
\* correct_answer False and a text that differs from the source sentence in
\* exactly one whitespace-delimited word, the new word being a keyword that
\* differs case-insensitively from the content word it replaces; the text is
\* never the source sentence itself.
C13_FalseCardSubstitutesOneWord ==
    (pc = "tf_done" /\ ~card_out.none /\ Len(card_out.val) = 2) =>
        LET false_q == card_out.val[2]
            shown   == Split(false_q.question.body)
            changed == {k \in 1..Len(sentence) : shown[k] # sentence[k]}
        IN  /\ false_q.correct_answer = FALSE
            /\ false_q.question.body # Join(sentence)
            /\ Len(shown) = Len(sentence)
            /\ Cardinality(changed) = 1
            /\ \A k \in changed :
                  /\ shown[k] \in Range(keywords)
                  /\ Len(sentence[k]) > 3
                  /\ Lower(sentence[k]) \notin get_stopwords.val
                  /\ Lower(shown[k]) # Lower(sentence[k])

(***************************************************************************)
(* The fill-in-the-blank generator                                         *)
(***************************************************************************)
\* positions of the words whose normalized form is a keyword longer than 3 characters
Qualifying(sent, kws) ==
    {k \in 1..Len(sent) : Normalized(sent[k]) \in Range(kws) /\ Len(Normalized(sent[k])) > 3}

\* C14: create_fill_blank_from_sentence returns no card for a sentence of
\* fewer than 10 words or without a qualifying word; otherwise it returns one
\* card in which the blank stands for the leftmost word whose normalized form
\* is a keyword longer than 3 characters and every other word is unchanged.
C14_FillBlankLeftmostQualifying ==
    pc = "fill_done" =>
        LET ok == Qualifying(sentence, keywords)
        IN  /\ card_out.none <=> (Len(sentence) < 10 \/ ok = {})
            /\ ~card_out.none =>
                  LET shown == Split(card_out.val.question.body)
                  IN  /\ card_out.val.type = "fill_blank"
                      /\ Len(shown) = Len(sentence)
                      /\ \A k \in 1..Len(sentence) :
                            IF k \in ok /\ \A j \in ok : k <= j
                            THEN shown[k] = Blank
                            ELSE shown[k] = sentence[k]

\* a card from a sentence with several qualifying words, the leftmost of
\* which is not the first word that carries a keyword-length token
C14_Witness ==
    /\ pc = "fill_done" /\ ~card_out.none
    /\ Cardinality(Qualifying(sentence, keywords)) >= 2
    /\ 2 \notin Qualifying(sentence, keywords)
    /\ Split(card_out.val.question.body)[9] = Blank

\* a sentence of 10 words or more without a qualifying word: no card
C14_WitnessNone ==
    /\ pc = "fill_done" /\ card_out.none
    /\ Len(sentence) >= 10

(***************************************************************************)
(* The multiple-choice generator                                           *)
(***************************************************************************)
\* the content words of a sentence: its tokens that are alphanumeric, longer
\* than 3 characters and not in the stopword set in use
ContentWordSet(sent) ==
    {w \in Range(safe_word_tokenize(sent).val) :
        IsAlnum(w) /\ Len(w) > 3 /\ w \notin get_stopwords.val}

\* C15: create_mcq_from_sentence returns no card exactly when the sentence
\* has no content word (alphanumeric, longer than 3 characters, not a
\* stopword); otherwise correct_answer is one of the sentence's content words.
C15_McqAnswerIsContentWord ==
    pc = "mcq_done" =>
        /\ card_out.none <=> ContentWordSet(sentence) = {}
        /\ ~card_out.none => /\ card_out.val.type = "mcq"
                             /\ card_out.val.correct_answer \in ContentWordSet(sentence)

\* a card from a sentence that also holds a stopword longer than 3 characters
C15_Witness ==
    /\ pc = "mcq_done" /\ ~card_out.none
    /\ \E k \in 1..Len(sentence) :
          /\ Len(sentence[k]) > 3 /\ IsAlnum(sentence[k])
          /\ sentence[k] \in get_stopwords.val
    /\ card_out.val.correct_answer \in ContentWordSet(sentence)

\* no card from a sentence of eight words, none of them a content word
C15_WitnessNone ==
    /\ pc = "mcq_done" /\ card_out.none
    /\ Len(sentence) >= 8


\* C16: in every MCQ card the question is the source sentence with the first
\* occurrence of the answer word replaced by the blank marker: the question
\* contains the marker, differs from the sentence, and the word removed is
\* the answer word itself, not a fragment of another word, also when the
\* answer word is capitalised in the sentence.
C16_McqBlanksTheAnswerWord ==
    (pc = "mcq_done" /\ ~card_out.none) =>
        LET shown  == Split(card_out.val.question.body)
            answer == card_out.val.correct_answer
        IN  /\ Len(shown) = Len(sentence)
            /\ \E k \in 1..Len(sentence) :
                  /\ StripNonWord(sentence[k]) = answer
                  /\ \A j \in 1..(k - 1) : StripNonWord(sentence[j]) # answer
                  /\ shown[k] = Replace1(sentence[k], answer, Blank)
                  /\ shown[k] # sentence[k]
                  /\ \A j \in 1..Len(sentence) : j # k => shown[j] = sentence[j]

\* the part of C16 about a capitalised answer word: the word is blanked
C16_CapitalisedAnswerBlanked ==
    (pc = "mcq_done" /\ ~card_out.none /\ card_out.val.correct_answer = <<"A", "t", "o", "m">>) =>
        Split(card_out.val.question.body)[2] = Blank \o <<",">>


\* C17: the three distractors of an MCQ card are sampled without
\* replacement, so the four options of a card are four pairwise different
\* strings, also when the distractor pool was padded from the generic list.
C17_McqOptionsPairwiseDifferent ==
    (pc = "mcq_done" /\ ~card_out.none) =>
        LET options == card_out.val.options
        IN  /\ Len(options) = 4
            /\ \A a, b \in 1..Len(options) : a # b => options[a] # options[b]


\* the options of an MCQ card without the answer at correct_index
Distractors(card) ==
    SelectWhere(card.options, {k \in 1..Len(card.options) : k # card.correct_index + 1})

\* C18: the distractor pool is the keywords other than the answer; words of
\* the generic list are among the distractors only when fewer than 3 such
\* keywords exist, and with 3 or more all three distractors are keywords
\* different from the answer.
C18_DistractorsFromKeywords ==
    (pc = "mcq_done" /\ ~card_out.none) =>
        LET answer == card_out.val.correct_answer
            others == {w \in Range(keywords) : w # answer}
            drawn  == Range(Distractors(card_out.val))
        IN  /\ Len(Distractors(card_out.val)) = 3
            /\ Cardinality(others) >= 3 => drawn \subseteq others
            /\ Cardinality(others) < 3 => drawn \subseteq others \cup Range(GeneralDistractors)

\* a card whose answer is itself a keyword and leaves exactly 3 others
C18_Witness ==
    /\ pc = "mcq_done" /\ ~card_out.none
    /\ card_out.val.correct_answer \in Range(keywords)
    /\ Cardinality({w \in Range(keywords) : w # card_out.val.correct_answer}) = 3
    /\ Range(Distractors(card_out.val)) = {w \in Range(keywords) : w # card_out.val.correct_answer}

\* a card with a generic word among its distractors, fewer than 3 keywords
C18_WitnessPadded ==
    /\ pc = "mcq_done" /\ ~card_out.none
    /\ Cardinality({w \in Range(keywords) : w # card_out.val.correct_answer}) < 3
    /\ \E w \in Range(Distractors(card_out.val)) : w \in Range(GeneralDistractors)

(***************************************************************************)
(* DocumentProcessor: text extraction from an uploaded file                *)
(***************************************************************************)
MaxBytes == 3
MaxPages == 2
MaxTmp   == 2

PdfType  == "application/pdf"
DocxType == "application/vnd.openxmlformats-officedocument.wordprocessingml.document"
TxtType  == "text/plain"

\* the byte values of the TXT payloads: 'A', a 2-byte lead (C3), three
\* continuation bytes (82, A9, AC), 3-byte leads (E0, E2, ED), a 4-byte lead
\* (F0) and a byte that occurs in no UTF-8 sequence (FF)
ByteAlphabet == {65, 130, 169, 172, 195, 224, 226, 237, 240, 255}

RECURSIVE SeqsUpTo(_, _)
SeqsUpTo(S, n) ==
    IF n = 0 THEN {<<>>}
    ELSE LET shorter == SeqsUpTo(S, n - 1)
         IN  shorter \cup {Append(s, x) : s \in {t \in shorter : Len(t) = n - 1}, x \in S}

TxtPayloads == SeqsUpTo(ByteAlphabet, MaxBytes)

\* what page.extract_text() gives for a page: a text, or an exception
PageOutcomes == {Ret(<<>>), Ret(<<"a", "b">>), Ret(<<" ", "c", " ">>), Raise}

\* a PDF or DOCX upload: whether the reader can open it, and its pages
\* (paragraphs for DOCX)
PdfFiles ==
    {[type |-> PdfType, readable |-> r, pages |-> p]
        : r \in BOOLEAN, p \in SeqsUpTo(PageOutcomes, MaxPages)}
DocxFiles ==
    {[type |-> DocxType, readable |-> r, pages |-> p]
        : r \in BOOLEAN, p \in SeqsUpTo({<<>>, <<"a", "b">>, <<" ", "c", " ">>}, MaxPages)}
TxtFiles == {[type |-> TxtType, bytes |-> b] : b \in TxtPayloads}

IsCont(b) == 128 <= b /\ b <= 191

\* bytes.decode('utf-8') with errors='ignore': malformed bytes are skipped
RECURSIVE Utf8Decode_ignore(_)
Utf8Decode_ignore(b) ==
    IF b = <<>> THEN Ret(<<>>)
    ELSE LET b1 == b[1]
             n  == IF b1 < 128 THEN 1
                   ELSE IF 194 <= b1 /\ b1 <= 223 THEN 2
                   ELSE IF 224 <= b1 /\ b1 <= 239 THEN 3
                   ELSE IF 240 <= b1 /\ b1 <= 244 THEN 4
                   ELSE 0
             ok == /\ n > 0 /\ Len(b) >= n
                   /\ \A k \in 2..n : IsCont(b[k])
                   /\ (b1 = 224 => b[2] >= 160)
                   /\ (b1 = 237 => b[2] <= 159)
                   /\ (b1 = 240 => b[2] >= 144)
                   /\ (b1 = 244 => b[2] <= 143)
         IN  IF ~ok THEN Utf8Decode_ignore(Tail(b))
             ELSE LET cp == IF n = 1 THEN b1
                            ELSE IF n = 2 THEN (b1 % 32) * 64 + (b[2] % 64)
                            ELSE IF n = 3 THEN (b1 % 16) * 4096 + (b[2] % 64) * 64 + (b[3] % 64)
                            ELSE (b1 % 8) * 262144 + (b[2] % 64) * 4096
                                 + (b[3] % 64) * 64 + (b[4] % 64)
                  IN  Ret(<<cp>> \o Utf8Decode_ignore(SubSeq(b, n + 1, Len(b))).val)

\* bytes.decode('utf-8') (strict): the code points of the payload, or
\* UnicodeDecodeError at the first malformed or truncated sequence
RECURSIVE Utf8Decode(_)
Utf8Decode(b) ==
    IF b = <<>> THEN Ret(<<>>)
    ELSE LET b1 == b[1]
             \* length of the sequence announced by the lead byte; C0, C1 and
             \* F5..FF are no lead bytes, 80..BF are continuation bytes
             n  == IF b1 < 128 THEN 1
                   ELSE IF 194 <= b1 /\ b1 <= 223 THEN 2
                   ELSE IF 224 <= b1 /\ b1 <= 239 THEN 3
                   ELSE IF 240 <= b1 /\ b1 <= 244 THEN 4
                   ELSE 0
             ok == /\ n > 0 /\ Len(b) >= n
                   /\ \A k \in 2..n : IsCont(b[k])
                   /\ (b1 = 224 => b[2] >= 160)    \* no overlong 3-byte form
                   /\ (b1 = 237 => b[2] <= 159)    \* no surrogates
                   /\ (b1 = 240 => b[2] >= 144)    \* no overlong 4-byte form
                   /\ (b1 = 244 => b[2] <= 143)    \* nothing above U+10FFFF
         IN  IF ~ok THEN Raise
             ELSE LET cp == IF n = 1 THEN b1
                            ELSE IF n = 2 THEN (b1 % 32) * 64 + (b[2] % 64)
                            ELSE IF n = 3 THEN (b1 % 16) * 4096 + (b[2] % 64) * 64 + (b[3] % 64)
                            ELSE (b1 % 8) * 262144 + (b[2] % 64) * 4096
                                 + (b[3] % 64) * 64 + (b[4] % 64)
                      rest == Utf8Decode(SubSeq(b, n + 1, Len(b)))
                  IN  IF rest.raised THEN Raise ELSE Ret(<<cp>> \o rest.val)

\* text.strip() on the extracted text: blanks and newlines at both ends
RECURSIVE StripText(_)
StripText(s) ==
    IF s = <<>> THEN s
    ELSE IF Head(s) \in {" ", "\n"} THEN StripText(Tail(s))
    ELSE IF s[Len(s)] \in {" ", "\n"} THEN StripText(SubSeq(s, 1, Len(s) - 1))
    ELSE s

\* the loop `text += page.extract_text() + "\n"` (also paragraph.text)
RECURSIVE PagesText(_)
PagesText(pages) ==
    IF pages = <<>> THEN Ret(<<>>)
    ELSE IF Head(pages).raised THEN Raise
    ELSE LET rest == PagesText(Tail(pages))
         IN  IF rest.raised THEN Raise
             ELSE Ret(Head(pages).val \o <<"\n">> \o rest.val)

\* the file uploader of the sidebar delivers a file and the button
\* "Generate Flashcards" is pressed
Upload ==
    /\ pc = "doc_wait"
    /\ \E f \in PdfFiles \cup DocxFiles \cup TxtFiles : uploaded_file' = Some(f)
    /\ pc' = "doc_ready"
    /\ UNCHANGED <<quizVars, tbVars, doc_out, tmp_files, st_errors, selVars, ioVars, envVars, kwVars, synthVars,
                   genVars, rngVars>>

\* the script runs again from the top for the next interaction: the
\* messages and locals of the last run are gone, the files on disk stay
ScriptRerun ==
    /\ pc = "doc_done"
    /\ uploaded_file' = None
    /\ doc_out' = None
    /\ st_errors' = 0
    /\ pc' = "doc_wait"
    /\ UNCHANGED <<quizVars, tbVars, tmp_files, selVars, ioVars, envVars, kwVars, synthVars, genVars, rngVars>>

\* DocumentProcessor.extract_text_from_pdf; tmp_ok is whether the temporary
\* file could be created and written
ExtractTextFromPdf ==
    /\ pc = "doc_ready"
    /\ uploaded_file.val.type = PdfType
    /\ Cardinality(tmp_files) < MaxTmp
    /\ \E tmp_ok \in BOOLEAN :
          LET tmp_file_path == Cardinality(tmp_files) + 1
              f    == uploaded_file.val
              text_ == IF f.readable THEN PagesText(f.pages) ELSE Raise
          IN  IF ~tmp_ok
              THEN /\ tmp_files' = tmp_files
                   /\ st_errors' = st_errors + 1
                   /\ doc_out' = None
              ELSE /\ tmp_files' = tmp_files \cup {tmp_file_path}
                   /\ IF text_.raised
                      THEN st_errors' = st_errors + 1 /\ doc_out' = None
                      ELSE st_errors' = st_errors /\ doc_out' = Some(StripText(text_.val))
    /\ pc' = "doc_done"
    /\ UNCHANGED <<quizVars, tbVars, uploaded_file, selVars, ioVars, envVars, kwVars, synthVars, genVars, rngVars>>

\* DocumentProcessor.extract_text_from_docx
ExtractTextFromDocx ==
    /\ pc = "doc_ready"
    /\ uploaded_file.val.type = DocxType
    /\ LET f == uploaded_file.val
       IN  IF f.readable
           THEN st_errors' = st_errors
                /\ doc_out' = Some(StripText(PagesText([k \in 1..Len(f.pages) |-> Ret(f.pages[k])]).val))
           ELSE st_errors' = st_errors + 1 /\ doc_out' = None
    /\ pc' = "doc_done"
    /\ UNCHANGED <<quizVars, tbVars, uploaded_file, tmp_files, selVars, ioVars, envVars, kwVars, synthVars, genVars, rngVars>>

\* DocumentProcessor.extract_text_from_txt
ExtractTextFromTxt ==
    /\ pc = "doc_ready"
    /\ uploaded_file.val.type = TxtType
    /\ LET decoded == Utf8Decode(uploaded_file.val.bytes)
       IN  IF decoded.raised
           THEN st_errors' = st_errors + 1 /\ doc_out' = None
           ELSE st_errors' = st_errors /\ doc_out' = Some(decoded.val)
    /\ pc' = "doc_done"
    /\ UNCHANGED <<quizVars, tbVars, uploaded_file, tmp_files, selVars, ioVars, envVars, kwVars, synthVars, genVars, rngVars>>

InitDoc ==
    /\ punkt_ok = TRUE
    /\ stopwords_ok = TRUE
    /\ pc = "doc_wait"
    /\ text = <<>>
    /\ num_keywords = 0
    /\ kw_out = Ret(<<>>)
    /\ SynthIdle
    /\ GenIdle
    /\ SelIdle
    /\ IoIdle
    /\ DocIdle
    /\ TbIdle
    /\ QuizIdle

NextDoc ==
    Upload \/ ExtractTextFromPdf \/ ExtractTextFromDocx \/ ExtractTextFromTxt \/ ScriptRerun

SpecDoc == InitDoc /\ [][NextDoc]_vars

\* C19: after extract_text_from_pdf returns, with text or with a failure,
\* every temporary file it created has been removed.
C19_NoTemporaryFileLeft ==
    (pc = "doc_done" /\ uploaded_file.val.type = PdfType) => tmp_files = {}

\* the UTF-8 encoding of a sequence of code points
RECURSIVE Utf8Encode(_)
Utf8Encode(cps) ==
    IF cps = <<>> THEN <<>>
    ELSE LET c == Head(cps)
             enc == IF c < 128 THEN <<c>>
                    ELSE IF c < 2048 THEN <<192 + (c \div 64), 128 + (c % 64)>>
                    ELSE IF c < 65536
                         THEN <<224 + (c \div 4096), 128 + ((c \div 64) % 64), 128 + (c % 64)>>
                    ELSE <<240 + (c \div 262144), 128 + ((c \div 4096) % 64),
                           128 + ((c \div 64) % 64), 128 + (c % 64)>>
         IN  enc \o Utf8Encode(Tail(cps))

\* Unicode scalar values: code points up to U+10FFFF without the surrogates
IsScalarValue(c) == 0 <= c /\ c <= 1114111 /\ ~(55296 <= c /\ c <= 57343)

\* one well-formed UTF-8 byte sequence (Unicode standard, table 3-7)
WellFormedUnit(u) ==
    \/ Len(u) = 1 /\ u[1] <= 127
    \/ Len(u) = 2 /\ u[1] \in 194..223 /\ u[2] \in 128..191
    \/ Len(u) = 3 /\ u[1] = 224 /\ u[2] \in 160..191 /\ u[3] \in 128..191
    \/ Len(u) = 3 /\ u[1] \in (225..236) \cup {238, 239}
                  /\ u[2] \in 128..191 /\ u[3] \in 128..191
    \/ Len(u) = 3 /\ u[1] = 237 /\ u[2] \in 128..159 /\ u[3] \in 128..191
    \/ Len(u) = 4 /\ u[1] = 240 /\ u[2] \in 144..191
                  /\ u[3] \in 128..191 /\ u[4] \in 128..191
    \/ Len(u) = 4 /\ u[1] \in 241..243 /\ u[2] \in 128..191
                  /\ u[3] \in 128..191 /\ u[4] \in 128..191
    \/ Len(u) = 4 /\ u[1] = 244 /\ u[2] \in 128..143
                  /\ u[3] \in 128..191 /\ u[4] \in 128..191

\* valid UTF-8: a concatenation of well-formed byte sequences
RECURSIVE ValidUtf8(_)
ValidUtf8(b) ==
    \/ b = <<>>
    \/ \E n \in 1..Min(4, Len(b)) :
          /\ WellFormedUnit(SubSeq(b, 1, n))
          /\ ValidUtf8(SubSeq(b, n + 1, Len(b)))

\* C20: extracting a TXT payload that is not valid UTF-8 ends in a failure
\* signal to the caller (no text, an error shown), never in partial or
\* garbled text; a valid payload returns its decoded text unchanged (the
\* text is scalar values whose encoding is the payload).
C20_TxtDecodesOrFails ==
    (pc = "doc_done" /\ uploaded_file.val.type = TxtType) =>
        LET payload == uploaded_file.val.bytes
        IN  IF ValidUtf8(payload)
            THEN /\ ~doc_out.none
                 /\ st_errors = 0
                 /\ \A k \in 1..Len(doc_out.val) : IsScalarValue(doc_out.val[k])
                 /\ Utf8Encode(doc_out.val) = payload
            ELSE /\ doc_out.none
                 /\ st_errors = 1

\* a valid payload with a multi-byte character has been decoded
C20_Witness ==
    /\ pc = "doc_done" /\ uploaded_file.val.type = TxtType
    /\ ~doc_out.none
    /\ Len(doc_out.val) = 2
    /\ Len(uploaded_file.val.bytes) = 3
    /\ \E k \in 1..2 : doc_out.val[k] > 127

\* a payload whose first character is valid and whose rest is not: failure
C20_WitnessInvalid ==
    /\ pc = "doc_done" /\ uploaded_file.val.type = TxtType
    /\ doc_out.none /\ st_errors = 1
    /\ uploaded_file.val.bytes = <<65, 195, 255>>

(***************************************************************************)
(* Import of an uploaded JSON file (Import & Export tab)                   *)
(***************************************************************************)
MaxImport == 3

Rec_no_type ==
    JObj(<<Member(k_question, JStr(s_blank)), Member(k_correct_answer, JBool(TRUE))>>)
Rec_no_question ==
    JObj(<<Member(k_type, JStr(t_true_false)), Member(k_correct_answer, JBool(FALSE)),
           Member(k_explanation, JStr(s_quote))>>)
Rec_no_answer ==
    JObj(<<Member(k_type, JStr(t_fill_blank)), Member(k_question, JStr(s_blank))>>)
Rec_mcq_no_options ==
    JObj(<<Member(k_type, JStr(t_mcq)), Member(k_question, JStr(s_blank)),
           Member(k_correct_answer, JStr(s_true))>>)

ImportRecords ==
    {Card_mcq10, Card_tf(TRUE), Card_fill,
     Rec_no_type, Rec_no_question, Rec_no_answer, Rec_mcq_no_options, JNum(1)}

ImportArrays == SeqsUpTo(ImportRecords, MaxImport)

\* the texts of the uploaded files: JSON arrays of records, a JSON object,
\* and two texts that are not JSON
ImportTexts ==
    {Dumps(JArr(recs)) : recs \in ImportArrays}
       \cup {Dumps(Card_fill), <<"[">>, <<>>}

InitImport ==
    /\ punkt_ok = TRUE
    /\ stopwords_ok = TRUE
    /\ pc = "import_wait"
    /\ flashcards = <<>>
    /\ download = None
    /\ imported_flashcards = Ret(<<>>)
    /\ uploaded_json = None
    /\ text = <<>>
    /\ num_keywords = 0
    /\ kw_out = Ret(<<>>)
    /\ SynthIdle
    /\ GenIdle
    /\ SelIdle
    /\ DocIdle
    /\ TbIdle
    /\ QuizIdle

\* main_app.py 292-301: a JSON file is given to the uploader and imported
ImportUploaded ==
    /\ pc = "import_wait"
    /\ \E json_data \in ImportTexts :
          /\ uploaded_json' = Some(json_data)
          /\ imported_flashcards' = import_flashcards_json(json_data)
    /\ pc' = "import_done"
    /\ UNCHANGED <<quizVars, tbVars, selVars, docVars, envVars, kwVars, synthVars, genVars, rngVars, flashcards,
                   download>>

\* the uploader is cleared and the script runs again
ImportAgain ==
    /\ pc = "import_done"
    /\ uploaded_json' = None
    /\ imported_flashcards' = Ret(<<>>)
    /\ pc' = "import_wait"
    /\ UNCHANGED <<quizVars, tbVars, selVars, docVars, envVars, kwVars, synthVars, genVars, rngVars, flashcards,
                   download>>

NextImport == ImportUploaded \/ ImportAgain

SpecImport == InitImport /\ [][NextImport]_vars

\* the record is a JSON object with type, question and correct_answer, and
\* with options and correct_index when it declares the type mcq
HasRequiredFields(rec) ==
    /\ "obj" \in DOMAIN rec
    /\ LET keys == {rec.obj[m].key : m \in 1..Len(rec.obj)}
       IN  /\ {k_type, k_question, k_correct_answer} \subseteq keys
           /\ (\E m \in 1..Len(rec.obj) :
                  rec.obj[m].key = k_type /\ rec.obj[m].value = JStr(t_mcq))
              => {k_options, k_correct_index} \subseteq keys

WhiteSpace == {" ", "\n", "\t"}

\* the text of the pages of the uploaded PDFs
P_star  == <<"A", "b", "*", "c", ".">>
P_gaps  == <<" ", "d", " ", " ", " ", "e", "\n">>
P_blank == <<" ", " ">>

\* what fitz reads from the bytes of a file: its pages, or an error
PdfContents ==
    {[readable |-> TRUE, pages |-> <<P_star>>],
     [readable |-> TRUE, pages |-> <<P_gaps, P_blank>>],
     [readable |-> TRUE, pages |-> <<P_star, P_gaps>>],
     [readable |-> FALSE, pages |-> <<>>]}

SessionFiles == {[name |-> n, content |-> c] : n \in {"x.pdf", "y.pdf"}, c \in PdfContents}

\* hashlib.md5(uploaded_file.getvalue()).hexdigest(): a function of the bytes
Md5(content) == [md5_of |-> content]

\* "\n".join(parts)
RECURSIVE JoinLines(_)
JoinLines(parts) ==
    IF parts = <<>> THEN <<>>
    ELSE IF Len(parts) = 1 THEN parts[1]
    ELSE parts[1] \o <<"\n">> \o JoinLines(Tail(parts))

\* str.strip() over all white space
RECURSIVE StripWs(_)
StripWs(s) ==
    IF s = <<>> THEN s
    ELSE IF Head(s) \in WhiteSpace THEN StripWs(Tail(s))
    ELSE IF s[Len(s)] \in WhiteSpace THEN StripWs(SubSeq(s, 1, Len(s) - 1))
    ELSE s

\* textbook_conversion.extract_text_from_pdf: the non-blank pages joined by
\* newlines, "" when the file cannot be read
TbExtractText(file) ==
    IF ~file.content.readable THEN <<>>
    ELSE LET pages == file.content.pages
         IN  JoinLines(SelectWhere(pages, {k \in 1..Len(pages) : StripWs(pages[k]) # <<>>}))

\* re.sub(cls{n,}, rep, s): every maximal run of n or more characters of
\* the class is replaced
RECURSIVE SubRuns(_, _, _, _)
SubRuns(s, cls, n, rep) ==
    IF s = <<>> THEN <<>>
    ELSE IF Head(s) \notin cls THEN <<Head(s)>> \o SubRuns(Tail(s), cls, n, rep)
    ELSE LET ends == {k \in 1..Len(s) : \A j \in 1..k : s[j] \in cls}
             r    == CHOOSE k \in ends : \A j \in ends : j <= k
         IN  (IF r >= n THEN rep ELSE SubSeq(s, 1, r))
                \o SubRuns(SubSeq(s, r + 1, Len(s)), cls, n, rep)

\* the characters line 41 keeps: \w, \s and . , ! ? ; : - ( )
KeptByClean(c) ==
    \/ IsAlnumChar(c) \/ c = "_" \/ c \in WhiteSpace
    \/ c \in {".", ",", "!", "?", ";", ":", "-", "(", ")"}

\* textbook_conversion.clean_text
clean_text(txt) ==
    LET t1 == SubRuns(txt, {"\n"}, 3, <<"\n", "\n">>)
        t2 == SubRuns(t1, WhiteSpace, 3, <<" ">>)
        t3 == SelectWhere(t2, {k \in 1..Len(t2) : KeptByClean(t2[k])})
    IN  StripWs(t3)

\* story_processing.extract_text_from_pdf: every page under a page header,
\* "" when the file cannot be read
RECURSIVE StoryPages(_, _)
StoryPages(pages, page_num) ==
    IF pages = <<>> THEN <<>>
    ELSE <<"\n", "-", "-", "-", " ", "P", "a", "g", "e", " ">> \o NumChars(page_num + 1)
            \o <<" ", "-", "-", "-", "\n">> \o Head(pages) \o <<"\n">>
            \o StoryPages(Tail(pages), page_num + 1)

StoryExtractText(file) ==
    IF ~file.content.readable THEN <<>> ELSE StoryPages(file.content.pages, 0)

\* extract_key_elements(text_hash, text) and generate_summary(text_hash,
\* text, _summarizer) are deterministic in the text: their results are
\* named by the function and the text they were computed from
KeySentencesOf(txt) == [fn |-> "key_sentences", of |-> txt]
KeywordsOf(txt)     == [fn |-> "keywords", of |-> txt]
SummaryOf(txt)      == [fn |-> "generate_summary", of |-> txt]

QaContextLimit == 3000

\* the file differs from the one the session was processed for
HashChanged_always(session, file_hash) == TRUE

\* line 259: st.session_state.get('file_hash') != file_hash
HashChanged(session, file_hash) ==
    session.file_hash.none \/ session.file_hash.val # file_hash

\* lines 259-262: a new file resets the processing state
AfterHashCheck(session, file_hash) ==
    IF HashChanged(session, file_hash)
    THEN [session EXCEPT !.file_hash = Some(file_hash),
                         !.processing_complete = FALSE,
                         !.extracted_text = <<>>]
    ELSE session

\* textbook_conversion_module, lines 254-373, run with a file in the
\* uploader: the hash check, the processing steps and the display
TextbookBody(file) ==
    LET file_hash == Md5(file.content)
        s1 == AfterHashCheck(session_state, file_hash)
        process == ~s1.processing_complete
        extract == process /\ s1.extracted_text = <<>>
        txt == IF extract THEN clean_text(TbExtractText(file)) ELSE s1.extracted_text
        args == [text_hash |-> file_hash, text |-> txt]
        s2 == IF process
              THEN [s1 EXCEPT !.extracted_text = txt,
                              !.key_sentences = Some(KeySentencesOf(txt)),
                              !.keywords = Some(KeywordsOf(txt)),
                              !.summary = Some(SummaryOf(txt)),
                              !.processing_complete = TRUE]
              ELSE s1
    IN  /\ session_state' = s2
        /\ ran' = IF ~process THEN {}
                  ELSE (IF extract THEN {"extract_text_from_pdf"} ELSE {})
                       \cup (IF args \in cache_data.extract_key_elements
                             THEN {} ELSE {"extract_key_elements"})
                       \cup (IF args \in cache_data.generate_summary
                             THEN {} ELSE {"generate_summary"})
        /\ cache_data' = IF ~process THEN cache_data
                         ELSE [extract_key_elements |-> cache_data.extract_key_elements \cup {args},
                               generate_summary |-> cache_data.generate_summary \cup {args}]
        /\ displayed' = IF s2.processing_complete
                        THEN Some([summary |-> s2.summary, keywords |-> s2.keywords,
                                   key_sentences |-> s2.key_sentences,
                                   context |-> SubSeq(s2.extracted_text, 1,
                                                  Min(QaContextLimit, Len(s2.extracted_text)))])
                        ELSE None

\* the user picks another module in the sidebar; the script runs in it with
\* its uploader empty
SelectMode ==
    /\ pc \in {"session_start", "mode_run", "tb_run", "story_run", "flash_run"}
    /\ \E m \in {"Interactive EDU", "Textbook Conversion", "Flashcard Generator"} :
          m # app_mode /\ app_mode' = m
    /\ tb_file' = None
    /\ story_file' = None
    /\ ran' = {}
    /\ displayed' = None
    /\ pc' = "mode_run"
    /\ UNCHANGED <<quizVars, session_state, cache_data, text_content, selVars, docVars, ioVars, envVars,
                   kwVars, synthVars, genVars, rngVars>>

\* a file is given to the uploader of the textbook module
TextbookUpload ==
    /\ pc \in {"session_start", "mode_run", "tb_run"}
    /\ app_mode = "Textbook Conversion"
    /\ \E file \in SessionFiles :
          /\ tb_file' = Some(file)
          /\ TextbookBody(file)
    /\ pc' = "tb_run"
    /\ UNCHANGED <<quizVars, app_mode, story_file, text_content, selVars, docVars, ioVars, envVars,
                   kwVars, synthVars, genVars, rngVars>>

\* any other interaction in the textbook module with the file still in the
\* uploader (a question typed, an expander opened)
TextbookInteract ==
    /\ pc = "tb_run"
    /\ app_mode = "Textbook Conversion"
    /\ ~tb_file.none
    /\ TextbookBody(tb_file.val)
    /\ pc' = "tb_run"
    /\ UNCHANGED <<quizVars, app_mode, tb_file, story_file, text_content, selVars, docVars, ioVars,
                   envVars, kwVars, synthVars, genVars, rngVars>>

\* story_processing.main, lines 272-286: a PDF is given to the uploader of
\* the Interactive EDU module
StoryUpload ==
    /\ pc \in {"session_start", "mode_run", "story_run"}
    /\ app_mode = "Interactive EDU"
    /\ \E file \in SessionFiles :
          /\ story_file' = Some(file)
          /\ LET text_ == StoryExtractText(file)
             IN  session_state' = IF text_ # <<>>
                                  THEN [session_state EXCEPT !.extracted_text = text_]
                                  ELSE session_state
    /\ ran' = {}
    /\ displayed' = None
    /\ pc' = "story_run"
    /\ UNCHANGED <<quizVars, app_mode, tb_file, cache_data, text_content, selVars, docVars, ioVars,
                   envVars, kwVars, synthVars, genVars, rngVars>>

\* main_app.py 78-80: the flashcard module with "Use Extracted Text"
UseExtractedText ==
    /\ pc = "mode_run"
    /\ app_mode = "Flashcard Generator"
    /\ text_content' = session_state.extracted_text
    /\ ran' = {}
    /\ displayed' = None
    /\ pc' = "flash_run"
    /\ UNCHANGED <<quizVars, app_mode, tb_file, story_file, session_state, cache_data, selVars, docVars,
                   ioVars, envVars, kwVars, synthVars, genVars, rngVars>>

InitSession ==
    /\ punkt_ok = TRUE
    /\ stopwords_ok = TRUE
    /\ pc = "session_start"
    /\ text = <<>>
    /\ num_keywords = 0
    /\ kw_out = Ret(<<>>)
    /\ SynthIdle
    /\ GenIdle
    /\ SelIdle
    /\ IoIdle
    /\ DocIdle
    /\ TbIdle
    /\ QuizIdle

NextSession ==
    \/ SelectMode \/ TextbookUpload \/ TextbookInteract
    \/ StoryUpload \/ UseExtractedText

SpecSession == InitSession /\ [][NextSession]_vars


\* C22: the derived artifacts of the textbook module are keyed by the
\* content hash of the uploaded file.  A run of the module with a file whose
\* hash is the one already processed runs neither the extraction nor the
\* key-element extraction nor the summarization and leaves the session as
\* it is; a run with a file of another hash ends with the text extracted
\* again from the new file, with the key sentences, keywords and summary of
\* that text, and with these results displayed.
C22_ArtifactsKeyedByHash ==
    [][(pc' = "tb_run" /\ ~tb_file'.none) =>
          LET file  == tb_file'.val
              h     == Md5(file.content)
              same  == ~session_state.file_hash.none /\ session_state.file_hash.val = h
              fresh == clean_text(TbExtractText(file))
          IN  /\ (same /\ session_state.processing_complete) =>
                    /\ ran' = {}
                    /\ session_state' = session_state
                    /\ cache_data' = cache_data
              /\ ~same =>
                    /\ "extract_text_from_pdf" \in ran'
                    /\ session_state'.file_hash = Some(h)
                    /\ session_state'.processing_complete
                    /\ session_state'.extracted_text = fresh
                    /\ session_state'.key_sentences = Some(KeySentencesOf(fresh))
                    /\ session_state'.keywords = Some(KeywordsOf(fresh))
                    /\ session_state'.summary = Some(SummaryOf(fresh))
                    /\ [text_hash |-> h, text |-> fresh] \in cache_data'.extract_key_elements
                    /\ [text_hash |-> h, text |-> fresh] \in cache_data'.generate_summary
                    /\ ~displayed'.none
                    /\ displayed'.val.summary = Some(SummaryOf(fresh))
                    /\ displayed'.val.keywords = Some(KeywordsOf(fresh))
                    /\ displayed'.val.key_sentences = Some(KeySentencesOf(fresh))
      ]_vars

\* a further interaction with the processed file: nothing was run again
C22_Witness ==
    /\ pc = "tb_run" /\ ~tb_file.none
    /\ session_state.processing_complete
    /\ session_state.file_hash = Some(Md5(tb_file.val.content))
    /\ session_state.extracted_text # <<>>
    /\ ran = {}

\* a second file with another hash has been processed after a first one
C22_WitnessNewFile ==
    /\ pc = "tb_run" /\ ~tb_file.none
    /\ Cardinality(cache_data.extract_key_elements) = 2
    /\ "extract_text_from_pdf" \in ran
    /\ session_state.extracted_text = clean_text(TbExtractText(tb_file.val))


\* C30: whenever processing_complete is set, the shared session field
\* extracted_text is the cleaned text of the file whose hash is in file_hash,
\* so that the summary, keywords, key sentences and question-answering
\* context displayed together derive from one document, for every
\* interleaving of the three modules.
C30_ExtractedTextBelongsToHash ==
    /\ session_state.processing_complete =>
          /\ ~session_state.file_hash.none
          /\ \A file \in SessionFiles :
                Md5(file.content) = session_state.file_hash.val =>
                    session_state.extracted_text = clean_text(TbExtractText(file))
    /\ ~displayed.none =>
          LET doc == displayed.val.summary.val.of
          IN  /\ displayed.val.keywords.val.of = doc
              /\ displayed.val.key_sentences.val.of = doc
              /\ displayed.val.context = SubSeq(doc, 1, Min(QaContextLimit, Len(doc)))

(***************************************************************************)
(* FlashcardPlayer: the quiz on the deck of the session, with the actions  *)
(* of the two scripts that replace the deck                                *)
(***************************************************************************)
MaxAnswered == 3

QC_mcq ==
    [type |-> "mcq",
     question |-> Str("Complete the sentence: ", <<"t", "h", "e", " ">> \o Blank, ""),
     options |-> <<w_atom, w_cell, w_gene, w_heat>>,
     correct_answer |-> w_cell,
     correct_index |-> 1,
     explanation |-> Str("The correct answer is '", w_cell, "' based on the context.")]

QC_tf(b) ==
    [type |-> "true_false",
     question |-> Str("", <<"a", " ", "b">>, ""),
     correct_answer |-> b,
     explanation |-> Str("", <<>>, "")]

QC_fill ==
    [type |-> "fill_blank",
     question |-> Str("Fill in the blank: ", Blank \o <<" ", "i", "s">>, ""),
     correct_answer |-> w_cell_comma,
     explanation |-> Str("The correct word is '", w_cell_comma, "' based on the context.")]

\* the non-empty decks a generation or an import can put into the session
QuizDecks ==
    {<<QC_mcq>>,
     <<QC_fill>>,
     <<QC_tf(TRUE), QC_fill>>,
     <<QC_mcq, QC_tf(FALSE)>>,
     <<QC_fill, QC_tf(TRUE), QC_mcq>>}

\* what the user types into the fill-in-the-blank box
FillInputs == {<<>>, <<" ", "C", "e", "l", "l", "!">>, w_gene}

\* the uploaded file of the sidebar with the outcome of its DocumentProcessor
\* method: None, an empty text or a text
GenFiles ==
    {[type |-> t, extracted |-> x]
        : t \in {PdfType, DocxType, TxtType, "application/octet-stream"},
          x \in {None, Some(<<>>), Some(<<"t", "e", "x", "t">>)}}

reset_quiz_keep_score ==
    /\ current_card' = 0
    /\ selected_option' = None
    /\ user_answer' = <<>>
    /\ show_answer' = FALSE
    /\ UNCHANGED <<score, total_answered>>
    /\ quiz_completed' = FALSE

GenerateOutcome_reset_always(flashcards_) ==
    /\ current_card' = 0
    /\ selected_option' = None
    /\ user_answer' = <<>>
    /\ show_answer' = FALSE
    /\ score' = 0
    /\ total_answered' = 0
    /\ quiz_completed' = FALSE
    /\ UNCHANGED show_stats
    /\ IF flashcards_ # <<>>
       THEN flashcards' = flashcards_ /\ pc' = "generated"
       ELSE UNCHANGED flashcards /\ pc' = "empty_deck"

\* FlashcardPlayer.reset_quiz
reset_quiz ==
    /\ current_card' = 0
    /\ selected_option' = None
    /\ user_answer' = <<>>
    /\ show_answer' = FALSE
    /\ score' = 0
    /\ total_answered' = 0
    /\ quiz_completed' = FALSE

\* play_flashcards shows a question card: the quiz is not completed, the
\* deck is not empty and flashcards[current_card] exists
CardShown ==
    /\ ~quiz_completed
    /\ flashcards # <<>>
    /\ current_card < Len(flashcards)

CurrentCard == flashcards[current_card + 1]

\* the deck of the session is replaced and the quiz reset (lines 609-610,
\* 630-631; main_app.py 220-222, 311-313)
ReplaceDeckAndReset(deck_) ==
    /\ flashcards' = deck_
    /\ reset_quiz
    /\ UNCHANGED show_stats

QuizFrame ==
    UNCHANGED <<app, download, imported_flashcards, uploaded_json, tbVars, selVars, docVars,
                envVars, kwVars, synthVars, genVars, rngVars>>

\* a handler that only reports leaves the deck and the quiz as they are
QuizUntouched ==
    UNCHANGED <<flashcards, current_card, selected_option, user_answer, show_answer, score,
                total_answered, quiz_completed, show_stats>>

\* flashcard_generator.main 610-616, 627-633: "if flashcards:" stores the
\* deck and resets the quiz, the else branch shows "Could not generate
\* flashcards"
GenerateOutcome(flashcards_) ==
    IF flashcards_ # <<>>
    THEN ReplaceDeckAndReset(flashcards_) /\ pc' = "generated"
    ELSE QuizUntouched /\ pc' = "empty_deck"

\* flashcard_generator.main 593-618: "Generate Flashcards" in the sidebar
GenerateFromFile ==
    /\ app = "flashcard_generator"
    /\ \E upl_ \in {None} \cup {Some(f) : f \in GenFiles} :
          IF upl_.none
          THEN QuizUntouched /\ pc' = "no_file"
          ELSE IF upl_.val.type \notin {PdfType, DocxType, TxtType}
          THEN QuizUntouched /\ pc' = "unsupported_type"
          ELSE LET text_ == upl_.val.extracted
               IN  IF text_.none \/ text_.val = <<>>
                   THEN QuizUntouched /\ pc' = "no_text"
                   ELSE \E flashcards_ \in QuizDecks \cup {<<>>} :
                           GenerateOutcome(flashcards_)
    /\ QuizFrame

\* flashcard_generator.main 623-635: "Generate from Text"
GenerateFromText ==
    /\ app = "flashcard_generator"
    /\ \E manual_text \in {<<>>, <<"t", "e", "x", "t">>} :
          IF manual_text = <<>>
          THEN QuizUntouched /\ pc' = "no_manual_text"
          ELSE \E flashcards_ \in QuizDecks \cup {<<>>} : GenerateOutcome(flashcards_)
    /\ QuizFrame

\* main_app.py 124-127: "Generate Flashcards" of the first tab stores the
\* deck and leaves the quiz fields as they are
MainAppGenerate ==
    /\ app = "main_app"
    /\ \E made \in QuizDecks \cup {<<>>} :
          IF made # <<>>
          THEN flashcards' = made /\ pc' = "generated_main"
          ELSE UNCHANGED flashcards /\ pc' = "empty_deck"
    /\ UNCHANGED <<current_card, selected_option, user_answer, show_answer, score,
                   total_answered, quiz_completed, show_stats>>
    /\ QuizFrame

\* main_app.py 187-223: "Generate and Start Quiz", offered while the session
\* has no deck
QuickQuiz ==
    /\ app = "main_app"
    /\ flashcards = <<>>
    /\ \E made \in QuizDecks \cup {<<>>} : GenerateOutcome(made)
    /\ QuizFrame

\* main_app.py 310-314: "Use Imported Flashcards"
UseImported ==
    /\ app = "main_app"
    /\ \E imported \in QuizDecks : ReplaceDeckAndReset(imported)
    /\ pc' = "imported"
    /\ QuizFrame

\* display_mcq_options 323: "if i == card['correct_index']"
McqCorrect_any(card, i) == TRUE

McqCorrect(card, i) == i = card.correct_index

\* display_mcq_options 318-328: an option button
AnswerMcq ==
    /\ CardShown /\ CurrentCard.type = "mcq" /\ ~show_answer
    /\ total_answered < MaxAnswered
    /\ \E i \in 0..(Len(CurrentCard.options) - 1) :
          /\ selected_option' = Some(i)
          /\ score' = IF McqCorrect(CurrentCard, i) THEN score + 1 ELSE score
    /\ show_answer' = TRUE
    /\ total_answered' = total_answered + 1
    /\ pc' = "answered"
    /\ UNCHANGED <<flashcards, current_card, user_answer, quiz_completed, show_stats>>
    /\ QuizFrame

\* display_tf_options 351-373: the True and the False button
AnswerTf ==
    /\ CardShown /\ CurrentCard.type = "true_false" /\ ~show_answer
    /\ total_answered < MaxAnswered
    /\ \E b \in BOOLEAN :
          /\ selected_option' = Some(b)
          /\ score' = IF b = CurrentCard.correct_answer THEN score + 1 ELSE score
    /\ show_answer' = TRUE
    /\ total_answered' = total_answered + 1
    /\ pc' = "answered"
    /\ UNCHANGED <<flashcards, current_card, user_answer, quiz_completed, show_stats>>
    /\ QuizFrame

\* display_fill_blank_input 394-411: "Submit Answer"
SubmitFill ==
    /\ CardShown /\ CurrentCard.type = "fill_blank" /\ ~show_answer
    /\ total_answered < MaxAnswered
    /\ \E user_input \in FillInputs :
          LET correct_answer    == StripNonWord(Lower(CurrentCard.correct_answer))
              user_answer_clean == StripNonWord(Lower(user_input))
          IN  /\ user_answer' = StripWs(user_input)
              /\ score' = IF correct_answer = user_answer_clean THEN score + 1 ELSE score
    /\ show_answer' = TRUE
    /\ total_answered' = total_answered + 1
    /\ pc' = "answered"
    /\ UNCHANGED <<flashcards, current_card, selected_option, quiz_completed, show_stats>>
    /\ QuizFrame

\* display_navigation 470-476
Previous ==
    /\ CardShown
    /\ current_card # 0
    /\ current_card' = current_card - 1
    /\ selected_option' = None
    /\ user_answer' = <<>>
    /\ show_answer' = FALSE
    /\ pc' = "previous"
    /\ UNCHANGED <<flashcards, score, total_answered, quiz_completed, show_stats>>
    /\ QuizFrame

\* display_navigation 483-489
NextCard ==
    /\ CardShown
    /\ current_card # Len(flashcards) - 1
    /\ current_card' = current_card + 1
    /\ selected_option' = None
    /\ user_answer' = <<>>
    /\ show_answer' = FALSE
    /\ pc' = "next"
    /\ UNCHANGED <<flashcards, score, total_answered, quiz_completed, show_stats>>
    /\ QuizFrame

\* display_navigation 478-482
FinishQuiz ==
    /\ CardShown
    /\ current_card = Len(flashcards) - 1
    /\ quiz_completed' = TRUE
    /\ pc' = "finished"
    /\ UNCHANGED <<flashcards, current_card, selected_option, user_answer, show_answer, score,
                   total_answered, show_stats>>
    /\ QuizFrame

\* display_navigation 491-494
ResetQuiz ==
    /\ CardShown
    /\ reset_quiz
    /\ pc' = "reset"
    /\ UNCHANGED <<flashcards, show_stats>>
    /\ QuizFrame

\* display_navigation 496-500: random.shuffle of the deck, then the reset
ShuffleDeck ==
    /\ CardShown
    /\ \E sh \in Shuffles(flashcards) : flashcards' = sh.ret
    /\ reset_quiz
    /\ pc' = "shuffled"
    /\ UNCHANGED show_stats
    /\ QuizFrame

\* display_navigation 502-505
ShowStats ==
    /\ CardShown
    /\ show_stats' = ~show_stats
    /\ pc' = "stats"
    /\ UNCHANGED <<flashcards, current_card, selected_option, user_answer, show_answer, score,
                   total_answered, quiz_completed>>
    /\ QuizFrame

\* display_quiz_results 507-547: "Start New Quiz", shown on the results page
StartNewQuiz ==
    /\ quiz_completed
    /\ total_answered > 0
    /\ reset_quiz
    /\ pc' = "new_quiz"
    /\ UNCHANGED <<flashcards, show_stats>>
    /\ QuizFrame

InitQuiz ==
    /\ punkt_ok = TRUE
    /\ stopwords_ok = TRUE
    /\ pc = "quiz_start"
    /\ text = <<>>
    /\ num_keywords = 0
    /\ kw_out = Ret(<<>>)
    /\ SynthIdle
    /\ GenIdle
    /\ SelIdle
    /\ IoIdle
    /\ DocIdle
    /\ TbIdle
    /\ app \in {"flashcard_generator", "main_app"}
    /\ QuizDefaults
    /\ show_stats = FALSE

\* the buttons of the player
PlayerAction ==
    \/ AnswerMcq \/ AnswerTf \/ SubmitFill
    \/ Previous \/ NextCard \/ FinishQuiz \/ ResetQuiz \/ ShuffleDeck \/ ShowStats
    \/ StartNewQuiz

NextQuiz ==
    \/ GenerateFromFile \/ GenerateFromText \/ MainAppGenerate \/ QuickQuiz \/ UseImported
    \/ AnswerMcq \/ AnswerTf \/ SubmitFill
    \/ Previous \/ NextCard \/ FinishQuiz \/ ResetQuiz \/ ShuffleDeck \/ ShowStats
    \/ StartNewQuiz

SpecQuiz == InitQuiz /\ [][NextQuiz]_vars


(***************************************************************************)
(* Claims on the quiz                                                      *)
(***************************************************************************)
\* C23: whenever the deck is non-empty the position satisfies
\* 0 <= current_card < len(deck), so flashcards[current_card] exists
C23_CardShownExists ==
    flashcards # <<>> => (0 <= current_card /\ current_card < Len(flashcards))

\* the standalone script keeps the position inside the deck
C23_StandaloneCardExists ==
    (app = "flashcard_generator" /\ flashcards # <<>>)
        => (0 <= current_card /\ current_card < Len(flashcards))

\* C24: 0 <= score <= total_answered in every state; a submission adds one
\* to total_answered and one to score exactly when the answer is correct;
\* any other step leaves both counters alone or sets both to 0 by a reset
C24_ScoreCounters ==
    /\ [](0 <= score /\ score <= total_answered)
    /\ [][LET card == flashcards[current_card + 1]
              correct ==
                  CASE card.type = "mcq" -> selected_option'.val = card.correct_index
                    [] card.type = "true_false" -> selected_option'.val = card.correct_answer
                    [] OTHER -> Normalized(user_answer') = Normalized(card.correct_answer)
          IN  IF pc' = "answered"
              THEN /\ total_answered' = total_answered + 1
                   /\ score' = score + (IF correct THEN 1 ELSE 0)
              ELSE \/ score' = score /\ total_answered' = total_answered
                   \/ /\ pc' \in {"generated", "imported", "reset", "shuffled", "new_quiz"}
                      /\ score' = 0 /\ total_answered' = 0]_vars

C24_Witness ==
    /\ pc = "answered"
    /\ flashcards[current_card + 1].type = "mcq"
    /\ total_answered = 2
    /\ score = 1
    /\ selected_option.val # flashcards[current_card + 1].correct_index

C24_WitnessFill ==
    /\ pc = "answered"
    /\ flashcards[current_card + 1].type = "fill_blank"
    /\ user_answer = <<"C", "e", "l", "l", "!">>
    /\ score = total_answered

\* C25: total_answered never exceeds the number of cards of the deck
C25_AnsweredAtMostDeck ==
    app = "flashcard_generator" => total_answered <= Len(flashcards)

\* C26: a completed quiz always offers a player action
C26_CompletedCanRestart ==
    quiz_completed => ENABLED PlayerAction

\* a completed quiz with an answer offers Start New Quiz
C26_AnsweredCanRestart ==
    (quiz_completed /\ total_answered > 0) => ENABLED StartNewQuiz

SameCards(a, b) ==
    /\ Len(a) = Len(b)
    /\ \A k \in 1..Len(a) :
          Cardinality({j \in 1..Len(a) : a[j] = a[k]})
              = Cardinality({j \in 1..Len(b) : b[j] = a[k]})

\* C27: Next and Previous move the position by one, clear selected_option,
\* user_answer and show_answer and keep the deck, score, total_answered and
\* quiz_completed; Reset and Shuffle give every quiz field its initial
\* value and keep the cards of the deck, Reset in the same order
C27_NavigationFrame ==
    [][/\ pc' \in {"next", "previous"} =>
            /\ current_card' = (IF pc' = "next" THEN current_card + 1 ELSE current_card - 1)
            /\ selected_option'.none
            /\ user_answer' = <<>>
            /\ show_answer' = FALSE
            /\ flashcards' = flashcards
            /\ score' = score
            /\ total_answered' = total_answered
            /\ quiz_completed' = quiz_completed
       /\ pc' \in {"reset", "shuffled"} =>
            /\ QuizDefaults'
            /\ SameCards(flashcards, flashcards')
            /\ (pc' = "reset" => flashcards' = flashcards)]_vars

C27_Witness ==
    /\ pc = "previous"
    /\ current_card = 0
    /\ total_answered = 2
    /\ score = 1

C27_WitnessReset ==
    /\ pc = "reset"
    /\ Len(flashcards) = 3
    /\ QuizDefaults

C27_WitnessShuffle ==
    /\ pc = "shuffled"
    /\ flashcards = <<QC_mcq, QC_tf(TRUE), QC_fill>>

\* C29: a Generate that fails leaves the deck, the position, score,
\* total_answered and the completion flag unchanged; a Generate replaces
\* the deck and resets the quiz only when it produced at least one card
C29_FailedGenerateKeepsSession ==
    [][/\ pc' \in {"no_file", "unsupported_type", "no_text", "no_manual_text", "empty_deck"} =>
            /\ flashcards' = flashcards
            /\ current_card' = current_card
            /\ score' = score
            /\ total_answered' = total_answered
            /\ quiz_completed' = quiz_completed
       /\ pc' = "generated" =>
            /\ flashcards' # <<>>
            /\ QuizDefaults']_vars

C29_Witness ==
    /\ pc = "unsupported_type"
    /\ Len(flashcards) = 2
    /\ current_card = 1
    /\ total_answered = 2
    /\ score = 1

C29_WitnessEmptyDeck ==
    /\ pc = "empty_deck"
    /\ app = "flashcard_generator"
    /\ quiz_completed
    /\ total_answered = 1

C29_WitnessGenerated ==
    /\ pc = "generated"
    /\ Len(flashcards) = 1
    /\ show_stats


(***************************************************************************)
(* Claim on the true/false cards of a generated deck                       *)
(***************************************************************************)
FalseCards(cards) ==
    {k \in 1..Len(cards) : cards[k].type = "true_false" /\ cards[k].correct_answer = FALSE}

TrueCards(cards) ==
    {k \in 1..Len(cards) : cards[k].type = "true_false" /\ cards[k].correct_answer = TRUE}

\* the card states a key sentence with one word replaced by a keyword
FalseCardOf(card, sent, kws) ==
    \E w \in Range(sent), r \in Range(kws) :
        card.question = Str("", Replace1(Join(sent), w, r), "")

\* C28: in a returned deck every false true/false card comes with the true
\* card of its source sentence, whose question is the sentence verbatim;
\* there are at most as many false cards as true cards, and the final
\* slice removes no card
C28_FalseCardHasItsTrueCard ==
    (pc = "gen_done" /\ ~deck.raised) =>
        LET cards == deck.val
        IN  /\ \A k \in FalseCards(cards) :
                  \E j \in TrueCards(cards), s \in 1..Len(key_sentences) :
                      /\ cards[j].question = Str("", Join(key_sentences[s]), "")
                      /\ FalseCardOf(cards[k], key_sentences[s], keywords)
            /\ Cardinality(FalseCards(cards)) <= Cardinality(TrueCards(cards))
            /\ Len(cards) = Len(all_cards)

\* a returned deck with a false card, next to cards of the other types
C28_Witness ==
    /\ pc = "gen_done"
    /\ ~deck.raised
    /\ FalseCards(deck.val) # {}
    /\ Len(deck.val) > 2

\* a run whose quota cut the false card of the only pair
C28_WitnessCut ==
    /\ pc = "gen_done"
    /\ num_tf = 1
    /\ tf_count = 1
    /\ TrueCards(deck.val) # {}
    /\ FalseCards(deck.val) = {}
    /\ \E call \in create_true_false_from_sentence(key_sentences[1], keywords) :
          Len(call.ret.val) = 2

====
